---- MODULE Spec2Model ----
(***************************************************************************)
(* tavernshell: the dice expression engine (package core/dice).            *)
(*                                                                         *)
(* Parse turns a notation into an Expression; RollExpression rolls the     *)
(* dice, applies per-die advantage, applies the keep/drop operation and    *)
(* computes the totals.  A notation is a sequence of one-character         *)
(* strings.  Slice indices are 1-based here: the Go index k is k+1, so the *)
(* advantage pair (2i, 2i+1) of the source is the pair (2i+1, 2i+2).       *)
(***************************************************************************)
EXTENDS Integers, Sequences, FiniteSets, Bags, TLC

(***************************************************************************)
(* notation     the text handed to Parse                                   *)
(* expr         the Expression Parse returned, RollExpression's argument   *)
(* pc           the position in RollExpression: "roll", "advantage",       *)
(*              "operation", "totals", and "done" or "error" on return     *)
(* i            the rolling loop's index: the number of dice rolled so far *)
(* rolls        RollExpression's slice of Die                              *)
(* draws        the values rollDie has returned, in call order             *)
(* randomBytes  the eight bytes rand.Read delivered to the last rollDie    *)
(* keptIndices  applyOperation's keptIndices, after sort.Slice             *)
(* result, err  what RollExpression returns                                *)
(* heap         the Expressions that concurrent callers hold pointers to   *)
(* calls        the concurrent calls of RollExpression: for each its       *)
(*              argument (an index of heap) and its local variables        *)
(* tracker      the rotation Tracker: Participants, CurrentTurn, Round     *)
(* added        the participants handed to Tracker.Add so far, as a bag of *)
(*              <<name, initiative>>                                       *)
(* last         the last call on the rotation tracker: the method, the     *)
(*              tracker as it was when the call began, and the number of   *)
(*              turns Next's search loop took                              *)
(* clock        the reading of time.Now(), in ticks of the clock           *)
(* timers       the timer Manager's map, as the set of its Timers (no two  *)
(*              of one ID)                                                 *)
(* timerLog     what happened to the timers: the Timers NewTimer made, the *)
(*              ones Remove and Clear took out, the "Alarm finished" lines *)
(*              of the TUI, and the last call with the map as it found it  *)
(* numbers      the number-tracker Manager's map, as the set of its        *)
(*              Trackers, and the package's idCounter                      *)
(* numberLast   the last call on the number-tracker Manager: the method,   *)
(*              its name argument, what it returned, the map as it was     *)
(* model        the TUI Model: initiativeEntryMode and the initiative      *)
(*              Manager (tracker, active)                                  *)
(* entered      the last line entered in the TUI: the text, the handler    *)
(*              it went to, and the call of dice.Parse it led to           *)
(***************************************************************************)
VARIABLES notation, expr, pc, i, rolls, draws, randomBytes, keptIndices, result, err,
          heap, calls, tracker, added, last,
          clock, timers, timerLog, numbers, numberLast, model, entered

vars ==
    <<notation, expr, pc, i, rolls, draws, randomBytes, keptIndices, result, err,
      heap, calls, tracker, added, last,
      clock, timers, timerLog, numbers, numberLast, model, entered>>

\* The variables of one call of Parse and RollExpression.
diceVars ==
    <<notation, expr, pc, i, rolls, draws, randomBytes, keptIndices, result, err>>

\* The variables of the concurrent calls.
callsVars == <<heap, calls>>

\* The variables of the rotation tracker.
rotationVars == <<tracker, added, last>>

\* The variables of the timer Manager.
timerVars == <<clock, timers, timerLog>>

\* The variables of the number-tracker Manager.
numberVars == <<numbers, numberLast>>

\* The variables of the TUI.
tuiVars == <<model, entered>>

\* The state a single call of Parse and RollExpression does not touch.
outsideCall == <<callsVars, rotationVars, timerVars, numberVars, tuiVars>>

\* The state the concurrent calls do not touch.
outsideCalls == <<diceVars, rotationVars, timerVars, numberVars, tuiVars>>

\* The state the rotation tracker does not touch.
outsideTracker == <<diceVars, callsVars, timerVars, numberVars, tuiVars>>

\* The state the timer Manager does not touch.
outsideTimers == <<diceVars, callsVars, rotationVars, numberVars, tuiVars>>

\* The state the number-tracker Manager does not touch.
outsideNumbers == <<diceVars, callsVars, rotationVars, timerVars, tuiVars>>

\* The state the TUI's handleCommand does not touch.
outsideTui == <<diceVars, callsVars, rotationVars, timerVars, numberVars>>

(***************************************************************************)
(* Bounds of the model.                                                    *)
(***************************************************************************)
\* The largest number of physical dice one generated notation rolls.
MaxDice == 4
\* The largest number of sides of a generated notation.
MaxSides == 3

(***************************************************************************)
(* Types (types.go).                                                       *)
(***************************************************************************)
OpTypes == {"OpKeepHighest", "OpKeepLowest", "OpDropHighest", "OpDropLowest"}

\* Expression.Operation == nil
NilOperation == [Type |-> "nil", Count |-> 0]

\* The zero Expression, which Parse's callers get beside an error.
NilExpression ==
    [Count |-> 0, Sides |-> 0, Modifier |-> 0, Operation |-> NilOperation, Advantage |-> FALSE]

\* The zero Die, as make([]Die, n) fills the slice.
ZeroDie == [Value |-> 0, Sides |-> 0, Kept |-> FALSE]

\* RollExpression's nil *Result.
NilResult == [IsNil |-> TRUE, Rolls |-> <<>>, KeptTotal |-> 0, Total |-> 0]

\* A plausible slip: the turn of a new tracker before the first participant.
NewTracker_NoTurn == [Participants |-> <<>>, CurrentTurn |-> -1, Round |-> 1]

\* rotation.NewTracker(): no participants, turn 0, round 1.
NewTracker == [Participants |-> <<>>, CurrentTurn |-> 0, Round |-> 1]

(***************************************************************************)
(* Text: unicode.IsDigit, strconv.Atoi, strings.ToLower, strings.ReplaceAll *)
(* and fmt's %d on the characters a notation is made of.                   *)
(***************************************************************************)
\* The elements of a sequence.
Range(s) == {s[k] : k \in 1..Len(s)}

Digits == <<"0", "1", "2", "3", "4", "5", "6", "7", "8", "9">>

IsDigit(c) == \E d \in 1..10 : Digits[d] = c

DigitVal(c) == (CHOOSE d \in 1..10 : Digits[d] = c) - 1

\* The value strconv.Atoi returns for a run of decimal digits that is in
\* range.
RECURSIVE Atoi(_)
Atoi(ds) ==
    IF ds = <<>> THEN 0
    ELSE 10 * Atoi(SubSeq(ds, 1, Len(ds) - 1)) + DigitVal(ds[Len(ds)])

RECURSIVE StripZeros(_)
StripZeros(ds) == IF ds # <<>> /\ ds[1] = "0" THEN StripZeros(Tail(ds)) ELSE ds

\* The digits of 1<<63 - 1, the largest int of a 64-bit build.
MaxIntDigits ==
    <<"9", "2", "2", "3", "3", "7", "2", "0", "3", "6", "8", "5", "4", "7", "7", "5", "8", "0", "7">>

\* a > b for two digit runs of equal length
RECURSIVE DigitsGreater(_, _)
DigitsGreater(a, b) ==
    IF a = <<>> THEN FALSE
    ELSE IF a[1] # b[1] THEN DigitVal(a[1]) > DigitVal(b[1])
    ELSE DigitsGreater(Tail(a), Tail(b))

\* strconv.Atoi's err != nil for a non-empty run of decimal digits: the value
\* is out of the range of int.
AtoiRangeError(ds) ==
    LET t == StripZeros(ds) IN
    \/ Len(t) > Len(MaxIntDigits)
    \/ Len(t) = Len(MaxIntDigits) /\ DigitsGreater(t, MaxIntDigits)

\* fmt.Sprintf("%d", n) for n >= 0.
RECURSIVE Itoa(_)
Itoa(n) == IF n < 10 THEN <<Digits[n + 1]>> ELSE Itoa(n \div 10) \o <<Digits[(n % 10) + 1]>>

UpperCase ==
    <<"A", "B", "C", "D", "E", "F", "G", "H", "I", "J", "K", "L", "M",
      "N", "O", "P", "Q", "R", "S", "T", "U", "V", "W", "X", "Y", "Z">>

LowerCase ==
    <<"a", "b", "c", "d", "e", "f", "g", "h", "i", "j", "k", "l", "m",
      "n", "o", "p", "q", "r", "s", "t", "u", "v", "w", "x", "y", "z">>

ToLowerChar(c) ==
    IF \E k \in 1..26 : UpperCase[k] = c
    THEN LowerCase[CHOOSE k \in 1..26 : UpperCase[k] = c]
    ELSE c

ToLower(s) == [k \in 1..Len(s) |-> ToLowerChar(s[k])]

IsNotSpace(c) == c # " "

\* strings.ReplaceAll(notation, " ", "")
RemoveSpaces(s) == SelectSeq(s, IsNotSpace)

(***************************************************************************)
(* Parse (parser.go).  The cursor i is the Go index: the character under   *)
(* it is s[i + 1].                                                         *)
(***************************************************************************)
ParseError == [err |-> TRUE, expr |-> NilExpression]

\* for i < len(notation) && unicode.IsDigit(rune(notation[i])) { i++ }
RECURSIVE ScanDigits(_, _)
ScanDigits(s, k) ==
    IF k < Len(s) /\ IsDigit(s[k + 1]) THEN ScanDigits(s, k + 1) ELSE k

\* A plausible slip: "kh" and "kl" exchanged.
OpTypeOf_KeepSwapped(op) ==
    CASE op = <<"k", "h">> -> "OpKeepLowest"
      [] op = <<"k", "l">> -> "OpKeepHighest"
      [] op = <<"d", "h">> -> "OpDropHighest"
      [] op = <<"d", "l">> -> "OpDropLowest"
      [] OTHER -> "nil"

\* switch op { case "kh": ... default: unknown operation }
OpTypeOf(op) ==
    CASE op = <<"k", "h">> -> "OpKeepHighest"
      [] op = <<"k", "l">> -> "OpKeepLowest"
      [] op = <<"d", "h">> -> "OpDropHighest"
      [] op = <<"d", "l">> -> "OpDropLowest"
      [] OTHER -> "nil"

\* A plausible slip: the test for a digit after the sign left out, so that a
\* bare "+" is a modifier of 0.
RECURSIVE ParseClauses_BareSign(_, _, _)
ParseClauses_BareSign(s, k, e) ==
    IF k >= Len(s) THEN [err |-> FALSE, expr |-> e]
    ELSE LET ch == s[k + 1] IN
      CASE ch = "!" -> ParseClauses_BareSign(s, k + 1, [e EXCEPT !.Advantage = TRUE])
        [] ch \in {"k", "d"} ->
             IF k + 1 >= Len(s) THEN ParseError
             ELSE LET op == <<s[k + 1], s[k + 2]>>
                      opType == OpTypeOf(op)
                      start == k + 2
                      stop == ScanDigits(s, start)
                      count == Atoi(SubSeq(s, start + 1, stop))
                  IN IF opType = "nil" THEN ParseError
                     ELSE IF start >= Len(s) \/ ~IsDigit(s[start + 1]) THEN ParseError
                     ELSE IF AtoiRangeError(SubSeq(s, start + 1, stop)) THEN ParseError
                     ELSE IF count < 1 THEN ParseError
                     ELSE ParseClauses_BareSign(s, stop,
                              [e EXCEPT !.Operation = [Type |-> opType, Count |-> count]])
        [] ch \in {"+", "-"} ->
             LET start == k + 1
                 stop == ScanDigits(s, start)
                 modifier == Atoi(SubSeq(s, start + 1, stop))
             IN IF AtoiRangeError(SubSeq(s, start + 1, stop)) THEN ParseError
                ELSE ParseClauses_BareSign(s, stop,
                         [e EXCEPT !.Modifier = IF ch = "-" THEN -modifier ELSE modifier])
        [] OTHER -> ParseError

\* A plausible slip: an operation clause is kept only when none was read
\* before it.
RECURSIVE ParseClauses_FirstOperationWins(_, _, _)
ParseClauses_FirstOperationWins(s, k, e) ==
    IF k >= Len(s) THEN [err |-> FALSE, expr |-> e]
    ELSE LET ch == s[k + 1] IN
      CASE ch = "!" -> ParseClauses_FirstOperationWins(s, k + 1, [e EXCEPT !.Advantage = TRUE])
        [] ch \in {"k", "d"} ->
             IF k + 1 >= Len(s) THEN ParseError
             ELSE LET op == <<s[k + 1], s[k + 2]>>
                      opType == OpTypeOf(op)
                      start == k + 2
                      stop == ScanDigits(s, start)
                      count == Atoi(SubSeq(s, start + 1, stop))
                  IN IF opType = "nil" THEN ParseError
                     ELSE IF start >= Len(s) \/ ~IsDigit(s[start + 1]) THEN ParseError
                     ELSE IF AtoiRangeError(SubSeq(s, start + 1, stop)) THEN ParseError
                     ELSE IF count < 1 THEN ParseError
                     ELSE ParseClauses_FirstOperationWins(s, stop,
                              IF e.Operation = NilOperation
                              THEN [e EXCEPT !.Operation = [Type |-> opType, Count |-> count]]
                              ELSE e)
        [] ch \in {"+", "-"} ->
             LET start == k + 1
                 stop == ScanDigits(s, start)
                 modifier == Atoi(SubSeq(s, start + 1, stop))
             IN IF start >= Len(s) \/ ~IsDigit(s[start + 1]) THEN ParseError
                ELSE IF AtoiRangeError(SubSeq(s, start + 1, stop)) THEN ParseError
                ELSE ParseClauses_FirstOperationWins(s, stop,
                         [e EXCEPT !.Modifier = IF ch = "-" THEN -modifier ELSE modifier])
        [] OTHER -> ParseError

\* Step 4: the loop over the trailing clauses.
RECURSIVE ParseClauses(_, _, _)
ParseClauses(s, k, e) ==
    IF k >= Len(s) THEN [err |-> FALSE, expr |-> e]
    ELSE LET ch == s[k + 1] IN
      CASE ch = "!" -> ParseClauses(s, k + 1, [e EXCEPT !.Advantage = TRUE])
        [] ch \in {"k", "d"} ->
             IF k + 1 >= Len(s) THEN ParseError
             ELSE LET op == <<s[k + 1], s[k + 2]>>
                      opType == OpTypeOf(op)
                      start == k + 2
                      stop == ScanDigits(s, start)
                      count == Atoi(SubSeq(s, start + 1, stop))
                  IN IF opType = "nil" THEN ParseError
                     ELSE IF start >= Len(s) \/ ~IsDigit(s[start + 1]) THEN ParseError
                     ELSE IF AtoiRangeError(SubSeq(s, start + 1, stop)) THEN ParseError
                     ELSE IF count < 1 THEN ParseError
                     ELSE ParseClauses(s, stop,
                              [e EXCEPT !.Operation = [Type |-> opType, Count |-> count]])
        [] ch \in {"+", "-"} ->
             LET start == k + 1
                 stop == ScanDigits(s, start)
                 modifier == Atoi(SubSeq(s, start + 1, stop))
             IN IF start >= Len(s) \/ ~IsDigit(s[start + 1]) THEN ParseError
                ELSE IF AtoiRangeError(SubSeq(s, start + 1, stop)) THEN ParseError
                ELSE ParseClauses(s, stop,
                         [e EXCEPT !.Modifier = IF ch = "-" THEN -modifier ELSE modifier])
        [] OTHER -> ParseError

\* A plausible slip: the upper bound of the count left out.
Parse_NoUpperBound(text) ==
    IF text = <<>> THEN ParseError
    ELSE LET s == ToLower(RemoveSpaces(text))
             i1 == ScanDigits(s, 0)
             count == Atoi(SubSeq(s, 1, i1))
             i2 == i1 + 1
             i3 == ScanDigits(s, i2)
             sides == Atoi(SubSeq(s, i2 + 1, i3))
         IN IF i1 > 0 /\ AtoiRangeError(SubSeq(s, 1, i1)) THEN ParseError
            ELSE IF i1 > 0 /\ count < 1 THEN ParseError
            ELSE IF i1 >= Len(s) \/ s[i1 + 1] # "d" THEN ParseError
            ELSE IF i2 >= Len(s) \/ ~IsDigit(s[i2 + 1]) THEN ParseError
            ELSE IF AtoiRangeError(SubSeq(s, i2 + 1, i3)) THEN ParseError
            ELSE IF sides < 2 THEN ParseError
            ELSE ParseClauses(s, i3,
                     [Count |-> IF i1 > 0 THEN count ELSE 1, Sides |-> sides, Modifier |-> 0,
                      Operation |-> NilOperation, Advantage |-> FALSE])

Parse(text) ==
    IF text = <<>> THEN ParseError
    ELSE LET s == ToLower(RemoveSpaces(text))
             i1 == ScanDigits(s, 0)
             count == Atoi(SubSeq(s, 1, i1))
             i2 == i1 + 1
             i3 == ScanDigits(s, i2)
             sides == Atoi(SubSeq(s, i2 + 1, i3))
         IN IF i1 > 0 /\ AtoiRangeError(SubSeq(s, 1, i1)) THEN ParseError
            ELSE IF i1 > 0 /\ count < 1 THEN ParseError
            ELSE IF i1 > 0 /\ count > 1000 THEN ParseError
            ELSE IF i1 >= Len(s) \/ s[i1 + 1] # "d" THEN ParseError
            ELSE IF i2 >= Len(s) \/ ~IsDigit(s[i2 + 1]) THEN ParseError
            ELSE IF AtoiRangeError(SubSeq(s, i2 + 1, i3)) THEN ParseError
            ELSE IF sides < 2 THEN ParseError
            ELSE ParseClauses(s, i3,
                     [Count |-> IF i1 > 0 THEN count ELSE 1, Sides |-> sides, Modifier |-> 0,
                      Operation |-> NilOperation, Advantage |-> FALSE])

\* formatOperation (result.go)
formatOperation(op) ==
    CASE op.Type = "OpKeepHighest" -> <<"k", "h">> \o Itoa(op.Count)
      [] op.Type = "OpKeepLowest" -> <<"k", "l">> \o Itoa(op.Count)
      [] op.Type = "OpDropHighest" -> <<"d", "h">> \o Itoa(op.Count)
      [] op.Type = "OpDropLowest" -> <<"d", "l">> \o Itoa(op.Count)
      [] OTHER -> <<>>

\* A plausible slip: a negative modifier written without its sign.
ReconstructNotation_NoSign(e) ==
    Itoa(e.Count) \o <<"d">> \o Itoa(e.Sides)
      \o (IF e.Advantage THEN <<"!">> ELSE <<>>)
      \o (IF e.Operation # NilOperation THEN formatOperation(e.Operation) ELSE <<>>)
      \o (IF e.Modifier > 0 THEN <<"+">> \o Itoa(e.Modifier)
          ELSE IF e.Modifier < 0 THEN <<"+">> \o Itoa(-e.Modifier)
          ELSE <<>>)

\* Result.String's "Reconstruct notation".
ReconstructNotation(e) ==
    Itoa(e.Count) \o <<"d">> \o Itoa(e.Sides)
      \o (IF e.Advantage THEN <<"!">> ELSE <<>>)
      \o (IF e.Operation # NilOperation THEN formatOperation(e.Operation) ELSE <<>>)
      \o (IF e.Modifier > 0 THEN <<"+">> \o Itoa(e.Modifier)
          ELSE IF e.Modifier < 0 THEN <<"-">> \o Itoa(-e.Modifier)
          ELSE <<>>)

(***************************************************************************)
(* RollExpression (roller.go).                                             *)
(***************************************************************************)
\* diceToRoll := expr.Count; if expr.Advantage { diceToRoll *= 2 }
DiceToRoll(e) == IF e.Advantage THEN e.Count * 2 ELSE e.Count

\* binary.BigEndian.Uint64(randomBytes[:]) % uint64(sides), by Horner's rule on
\* the eight bytes: the same number, with no intermediate value above
\* 256 * sides.
RECURSIVE Uint64ModFrom(_, _, _, _)
Uint64ModFrom(bytes, k, acc, m) ==
    IF k > Len(bytes) THEN acc ELSE Uint64ModFrom(bytes, k + 1, (acc * 256 + bytes[k]) % m, m)

Uint64Mod(bytes, m) == Uint64ModFrom(bytes, 1, 0, m)

\* A plausible slip: the "+ 1" forgotten, so that a die shows 0..sides-1.
rollDie_NoPlusOne(sides, bytes) ==
    IF sides < 2 THEN [err |-> TRUE, value |-> 0]
    ELSE [err |-> FALSE, value |-> Uint64Mod(bytes, sides)]

\* A plausible slip: "<=" for "<" in the guard, so that a two-sided die is
\* refused.
rollDie_SidesOffByOne(sides, bytes) ==
    IF sides <= 2 THEN [err |-> TRUE, value |-> 0]
    ELSE [err |-> FALSE, value |-> Uint64Mod(bytes, sides) + 1]

\* rollDie, given the eight bytes rand.Read delivered.
rollDie(sides, bytes) ==
    IF sides < 2 THEN [err |-> TRUE, value |-> 0]
    ELSE [err |-> FALSE, value |-> Uint64Mod(bytes, sides) + 1]

\* A plausible slip: Kept left at its zero value.
NewDie_NotKept(value, sides) == [Value |-> value, Sides |-> sides, Kept |-> FALSE]

\* rolls[i] = Die{Value: value, Sides: expr.Sides, Kept: true}
NewDie(value, sides) == [Value |-> value, Sides |-> sides, Kept |-> TRUE]

\* A plausible slip: ">" for ">=", so that a tie drops the first die of the pair.
AdvantagePair_Strict(r, a) ==
    IF r[a].Value > r[a + 1].Value THEN [r EXCEPT ![a + 1].Kept = FALSE]
    ELSE [r EXCEPT ![a].Kept = FALSE]

\* One turn of the advantage loop on the pair that starts at (1-based) a.
AdvantagePair(r, a) ==
    IF r[a].Value >= r[a + 1].Value THEN [r EXCEPT ![a + 1].Kept = FALSE]
    ELSE [r EXCEPT ![a].Kept = FALSE]

\* for i := 0; i < len(rolls); i += 2 { ... }
RECURSIVE AdvantageFrom(_, _)
AdvantageFrom(r, a) == IF a > Len(r) THEN r ELSE AdvantageFrom(AdvantagePair(r, a), a + 2)

Advantage(r) == AdvantageFrom(r, 1)

\* keptIndices before the sort: the indices of the kept dice, ascending.
KeptSet(r) == {k \in 1..Len(r) : r[k].Kept}

\* sort.Slice(keptIndices, less) with less(a, b) = Value[a] < Value[b].  sort.Slice
\* is documented as not stable: every arrangement of the indices in which no
\* die is followed by one of smaller value is an outcome.  Which of them a
\* build yields is fixed by its sort package: the call has no input but the
\* slice and less.
RECURSIVE SortSlice(_, _)
SortSlice(S, r) ==
    IF S = {} THEN {<<>>}
    ELSE LET least == {m \in S : \A n \in S : r[m].Value <= r[n].Value}
         IN UNION {{<<m>> \o t : t \in SortSlice(S \ {m}, r)} : m \in least}

\* A plausible slip: the two Keep cases slice the wrong end.
IndicesToDrop_KeepWrongEnd(op, sorted) ==
    LET n == Len(sorted) IN
    CASE op.Type = "OpKeepHighest" ->
           IF op.Count < n THEN SubSeq(sorted, op.Count + 1, n) ELSE <<>>
      [] op.Type = "OpKeepLowest" ->
           IF op.Count < n THEN SubSeq(sorted, 1, n - op.Count) ELSE <<>>
      [] op.Type = "OpDropHighest" ->
           IF op.Count <= n THEN SubSeq(sorted, n - op.Count + 1, n) ELSE <<>>
      [] op.Type = "OpDropLowest" ->
           IF op.Count <= n THEN SubSeq(sorted, 1, op.Count) ELSE <<>>
      [] OTHER -> <<>>

\* A plausible slip: "<" for "<=" in the two Drop cases, so that dropping
\* every die is refused.
IndicesToDrop_DropStrict(op, sorted) ==
    LET n == Len(sorted) IN
    CASE op.Type = "OpKeepHighest" ->
           IF op.Count < n THEN SubSeq(sorted, 1, n - op.Count) ELSE <<>>
      [] op.Type = "OpKeepLowest" ->
           IF op.Count < n THEN SubSeq(sorted, op.Count + 1, n) ELSE <<>>
      [] op.Type = "OpDropHighest" ->
           IF op.Count < n THEN SubSeq(sorted, n - op.Count + 1, n) ELSE <<>>
      [] op.Type = "OpDropLowest" ->
           IF op.Count < n THEN SubSeq(sorted, 1, op.Count) ELSE <<>>
      [] OTHER -> <<>>

\* A plausible slip: DropLowest drops one die too few.
IndicesToDrop_DropLowestShort(op, sorted) ==
    LET n == Len(sorted) IN
    CASE op.Type = "OpKeepHighest" ->
           IF op.Count < n THEN SubSeq(sorted, 1, n - op.Count) ELSE <<>>
      [] op.Type = "OpKeepLowest" ->
           IF op.Count < n THEN SubSeq(sorted, op.Count + 1, n) ELSE <<>>
      [] op.Type = "OpDropHighest" ->
           IF op.Count <= n THEN SubSeq(sorted, n - op.Count + 1, n) ELSE <<>>
      [] op.Type = "OpDropLowest" ->
           IF op.Count <= n THEN SubSeq(sorted, 1, op.Count - 1) ELSE <<>>
      [] OTHER -> <<>>

\* The switch on op.Type: the slice of the sorted keptIndices that is dropped.
IndicesToDrop(op, sorted) ==
    LET n == Len(sorted) IN
    CASE op.Type = "OpKeepHighest" ->
           IF op.Count < n THEN SubSeq(sorted, 1, n - op.Count) ELSE <<>>
      [] op.Type = "OpKeepLowest" ->
           IF op.Count < n THEN SubSeq(sorted, n - (n - op.Count) + 1, n) ELSE <<>>
      [] op.Type = "OpDropHighest" ->
           IF op.Count <= n THEN SubSeq(sorted, n - op.Count + 1, n) ELSE <<>>
      [] op.Type = "OpDropLowest" ->
           IF op.Count <= n THEN SubSeq(sorted, 1, op.Count) ELSE <<>>
      [] OTHER -> <<>>

\* A plausible slip: the dropped dice are removed from the slice.
MarkDropped_Remove(r, drop) ==
    LET keep == {k \in 1..Len(r) : ~\E j \in 1..Len(drop) : drop[j] = k}
    IN [k \in 1..Cardinality(keep) |->
          r[CHOOSE x \in keep : Cardinality({y \in keep : y < x}) = k - 1]]

\* for _, idx := range indicesToDrop { rolls[idx].Kept = false }
MarkDropped(r, drop) ==
    [k \in 1..Len(r) |->
        IF \E j \in 1..Len(drop) : drop[j] = k THEN [r[k] EXCEPT !.Kept = FALSE] ELSE r[k]]

\* keptTotal: the loop over rolls that adds the kept values.
RECURSIVE KeptTotalFrom(_, _)
KeptTotalFrom(r, k) ==
    IF k > Len(r) THEN 0
    ELSE (IF r[k].Kept THEN r[k].Value ELSE 0) + KeptTotalFrom(r, k + 1)

RECURSIVE AllTotalFrom(_, _)
AllTotalFrom(r, k) == IF k > Len(r) THEN 0 ELSE r[k].Value + AllTotalFrom(r, k + 1)

\* A plausible slip: the "if die.Kept" test left out of the loop.
KeptTotalOf_AllDice(r) == AllTotalFrom(r, 1)

KeptTotalOf(r) == KeptTotalFrom(r, 1)

\* A plausible slip: the modifier left out of the total.
MakeResult_NoModifier(e, r) ==
    [IsNil |-> FALSE, Rolls |-> r, KeptTotal |-> KeptTotalOf(r), Total |-> KeptTotalOf(r)]

\* &Result{Expression: expr, Rolls: rolls, KeptTotal: keptTotal, Total: total}
MakeResult(e, r) ==
    [IsNil |-> FALSE, Rolls |-> r, KeptTotal |-> KeptTotalOf(r),
     Total |-> KeptTotalOf(r) + e.Modifier]

\* The loop of RollDice over result.Rolls: the values of the kept dice, in
\* roll order.
RECURSIVE KeptValuesFrom(_, _)
KeptValuesFrom(r, k) ==
    IF k > Len(r) THEN <<>>
    ELSE (IF r[k].Kept THEN <<r[k].Value>> ELSE <<>>) \o KeptValuesFrom(r, k + 1)

\* RollDice after Parse and RollExpression have succeeded: the conversion of
\* the Result to the legacy Roll.
RollDice(text, e, res) ==
    [Notation |-> text,
     Count    |-> e.Count,
     Sides    |-> e.Sides,
     Results  |-> KeptValuesFrom(res.Rolls, 1),
     Total    |-> KeptTotalFrom(res.Rolls, 1) + e.Modifier]

(***************************************************************************)
(* The inputs: notations and random draws.                                 *)
(***************************************************************************)
Modifiers == {-1, 0, 2}

BoundedOperations ==
    {NilOperation} \cup [Type : OpTypes, Count : 1..(MaxDice + 1)]

BoundedExpressions ==
    {e \in [Count : 1..MaxDice, Sides : 2..MaxSides, Modifier : Modifiers,
            Operation : BoundedOperations, Advantage : BOOLEAN] : DiceToRoll(e) <= MaxDice}

\* "4d6kh3" and "d20!+5", the scenarios of the documentation.
ScenarioNotations ==
    {<<"4", "d", "6", "k", "h", "3">>, <<"d", "2", "0", "!", "+", "5">>}

\* Every bounded expression as Result.String writes it, "dS..." beside "1dS...",
\* and the scenarios.
Notations ==
    {ReconstructNotation(e) : e \in BoundedExpressions}
      \cup {Tail(ReconstructNotation(e)) : e \in {x \in BoundedExpressions : x.Count = 1}}
      \cup ScenarioNotations

ZeroBytes == <<0, 0, 0, 0, 0, 0, 0, 0>>

\* The draws rand.Read may deliver: those that give each face of the die, the
\* largest 64-bit number and the one with only the top bit set.
RandomDraws(sides) ==
    {[ZeroBytes EXCEPT ![8] = b] : b \in 0..(sides - 1)}
      \cup {<<255, 255, 255, 255, 255, 255, 255, 255>>, <<128, 0, 0, 0, 0, 0, 0, 0>>}

(***************************************************************************)
(* The parts of the program a specification leaves alone, as they are      *)
(* after construction.                                                     *)
(***************************************************************************)
\* No call on the rotation tracker yet.
NoCall == [op |-> "none", before |-> NewTracker, steps |-> 0]

\* No call of Parse or RollExpression.
IdleDice ==
    /\ notation = <<>>
    /\ expr = NilExpression
    /\ pc = "idle"
    /\ i = 0
    /\ rolls = <<>>
    /\ draws = <<>>
    /\ randomBytes = ZeroBytes
    /\ keptIndices = <<>>
    /\ result = NilResult
    /\ err = "nil"

\* No concurrent calls.
IdleCalls ==
    /\ heap = <<>>
    /\ calls = <<>>

\* A new tracker nothing was called on.
IdleRotation ==
    /\ tracker = NewTracker
    /\ added = EmptyBag
    /\ last = NoCall

\* timer.NewManager(), and no call on it yet.
NoTimerCall ==
    [created |-> <<>>, removed |-> {}, alarms |-> <<>>, op |-> "none", before |-> {},
     polled |-> -1]

IdleTimers ==
    /\ clock = 0
    /\ timers = {}
    /\ timerLog = NoTimerCall

\* number.NewManager() and idCounter's zero value, and no call yet.
NewNumberManager == [trackers |-> {}, idCounter |-> 0]

NoNumberCall == [op |-> "none", name |-> <<>>, err |-> FALSE, before |-> {}]

IdleNumbers ==
    /\ numbers = NewNumberManager
    /\ numberLast = NoNumberCall

\* Manager.tracker == nil: the tracker of round 0, which no Tracker is.
NilTracker == [Participants |-> <<>>, CurrentTurn |-> 0, Round |-> 0]

\* rotation.NewManager()
NewRotationManager == [tracker |-> NilTracker, active |-> FALSE]

\* tui.NewModel()
NewModel == [initiativeEntryMode |-> FALSE, initiativeManager |-> NewRotationManager]

\* dice.Parse not called.
NoParse == [called |-> FALSE, text |-> <<>>, err |-> FALSE, expr |-> NilExpression]

\* No line entered yet.
NoLine == [input |-> <<>>, entryMode |-> FALSE, handler |-> "none", parse |-> NoParse]

IdleTui ==
    /\ model = NewModel
    /\ entered = NoLine

(***************************************************************************)
(* The state machine: one call of RollExpression on a parsed notation.     *)
(***************************************************************************)
Init ==
    /\ notation \in Notations
    /\ Parse(notation).err = FALSE
    /\ expr = Parse(notation).expr
    /\ pc = "roll"
    /\ i = 0
    /\ rolls = [k \in 1..DiceToRoll(Parse(notation).expr) |-> ZeroDie]
    /\ draws = <<>>
    /\ randomBytes = ZeroBytes
    /\ keptIndices = <<>>
    /\ result = NilResult
    /\ err = "nil"
    /\ IdleCalls
    /\ IdleRotation
    /\ IdleTimers
    /\ IdleNumbers
    /\ IdleTui

\* One turn of the rolling loop whose rand.Read succeeds.
RollDie ==
    /\ pc = "roll"
    /\ i < DiceToRoll(expr)
    /\ \E bytes \in RandomDraws(expr.Sides) :
         LET d == rollDie(expr.Sides, bytes) IN
           /\ randomBytes' = bytes
           /\ IF d.err
                THEN /\ pc' = "error"
                     /\ err' = "sides"
                     /\ UNCHANGED <<i, rolls, draws>>
                ELSE /\ rolls' = [rolls EXCEPT ![i + 1] = NewDie(d.value, expr.Sides)]
                     /\ draws' = Append(draws, d.value)
                     /\ i' = i + 1
                     /\ pc' = IF i + 1 < DiceToRoll(expr) THEN "roll" ELSE "advantage"
                     /\ UNCHANGED err
    /\ UNCHANGED <<notation, expr, keptIndices, result>>
    /\ UNCHANGED outsideCall

\* One turn of the rolling loop whose rand.Read fails: return nil, err.
RandFail ==
    /\ pc = "roll"
    /\ i < DiceToRoll(expr)
    /\ pc' = "error"
    /\ err' = "rand"
    /\ UNCHANGED <<notation, expr, i, rolls, draws, randomBytes, keptIndices, result>>
    /\ UNCHANGED outsideCall

\* if expr.Advantage { ... }
ApplyAdvantage ==
    /\ pc = "advantage"
    /\ rolls' = IF expr.Advantage THEN Advantage(rolls) ELSE rolls
    /\ pc' = "operation"
    /\ UNCHANGED <<notation, expr, i, draws, randomBytes, keptIndices, result, err>>
    /\ UNCHANGED outsideCall

\* if expr.Operation != nil { applyOperation(rolls, expr.Operation) }
\* A plausible slip: the operation selects among all the dice rolled, the
\* ones advantage dropped included.
ApplyOperation_AllDice ==
    /\ pc = "operation"
    /\ IF expr.Operation # NilOperation /\ KeptSet(rolls) # {}
         THEN \E sorted \in SortSlice(1..Len(rolls), rolls) :
                /\ keptIndices' = sorted
                /\ rolls' = MarkDropped(rolls, IndicesToDrop(expr.Operation, sorted))
         ELSE UNCHANGED <<keptIndices, rolls>>
    /\ pc' = "totals"
    /\ UNCHANGED <<notation, expr, i, draws, randomBytes, result, err>>
    /\ UNCHANGED outsideCall

ApplyOperation ==
    /\ pc = "operation"
    /\ IF expr.Operation # NilOperation /\ KeptSet(rolls) # {}
         THEN \E sorted \in SortSlice(KeptSet(rolls), rolls) :
                /\ keptIndices' = sorted
                /\ rolls' = MarkDropped(rolls, IndicesToDrop(expr.Operation, sorted))
         ELSE UNCHANGED <<keptIndices, rolls>>
    /\ pc' = "totals"
    /\ UNCHANGED <<notation, expr, i, draws, randomBytes, result, err>>
    /\ UNCHANGED outsideCall

\* Calculate totals and return the Result.
Totals ==
    /\ pc = "totals"
    /\ result' = MakeResult(expr, rolls)
    /\ pc' = "done"
    /\ UNCHANGED <<notation, expr, i, rolls, draws, randomBytes, keptIndices, err>>
    /\ UNCHANGED outsideCall

Next == RollDie \/ RandFail \/ ApplyAdvantage \/ ApplyOperation \/ Totals

Spec == Init /\ [][Next]_vars

(***************************************************************************)
(* The parser on its own: a caller builds a text, starting from nothing or *)
(* from a notation of the tests, and hands it to Parse.  pc is "input"     *)
(* while the text is built, "parsed" when Parse returned an Expression and *)
(* "rejected" when it returned an error.                                   *)
(***************************************************************************)
\* The longest text that is still typed on.
MaxTextLen == 4

\* The characters that are typed: digits, the letters of the grammar in both
\* cases, the two signs of a clause, a space and a tab.
TypedChars == {"0", "1", "2", "d", "k", "h", "!", "+", " ", "\t", "D"}

\* The notations the parser tests expect an Expression for.
AcceptedExamples ==
    {<<"2", "d", "6">>,
     <<"d", "2", "0">>,
     <<"4", "d", "8">>,
     <<"1", "d", "1", "2">>,
     <<"1", "0", "d", "1", "0">>,
     <<"1", "0", "0", "d", "6">>,
     <<"2", "d", "6", "+", "3">>,
     <<"1", "d", "2", "0", "-", "2">>,
     <<"d", "8", "+", "5">>,
     <<"3", "d", "1", "0", "-", "1", "0">>,
     <<"2", "d", "6", "+", "0">>,
     <<"d", "2", "0", "!">>,
     <<"2", "d", "6", "!">>,
     <<"d", "2", "0", "!", "+", "5">>,
     <<"4", "d", "1", "0", "!", "-", "2">>,
     <<"4", "d", "6", "k", "h", "3">>,
     <<"4", "d", "6", "k", "l", "2">>,
     <<"5", "d", "1", "0", "d", "h", "1">>,
     <<"4", "d", "6", "d", "l", "1">>,
     <<"1", "0", "d", "6", "k", "h", "5">>,
     <<"4", "d", "6", "k", "h", "3", "+", "2">>,
     <<"2", "d", "2", "0", "k", "h", "1">>,
     <<"4", "d", "1", "0", "!", "k", "h", "3">>,
     <<"3", "d", "8", "d", "l", "1", "-", "1">>}

\* The notations the parser tests expect an error for.
ErrorExamples ==
    {<<>>,
     <<"2", "d">>,
     <<"d">>,
     <<"2", "x", "6">>,
     <<"0", "d", "6">>,
     <<"2", "d", "1">>,
     <<"1", "0", "0", "1", "d", "6">>,
     <<"2", "d", "6", "k", "h">>,
     <<"2", "d", "6", "+">>,
     <<"2", "d", "6", "x", "y", "z">>,
     <<"2", "d", "6", "k", "h", "0">>}

\* The notations of TestParse_Whitespace.
WhitespaceExamples ==
    {<<"2", "d", "6", " ", "+", " ", "3">>,
     <<"d", "2", "0", " ", "!">>,
     <<" ", "4", "d", "6", "k", "h", "3", " ">>,
     <<"2", " ", "d", " ", "6">>}

\* The bounds of count, upper case, tabs, unknown operations, leading zeros.
EdgeExamples ==
    {<<"1", "0", "0", "0", "d", "2">>,
     <<"1", "0", "0", "0", "d", "2", "k", "h", "1">>,
     <<"D", "2", "0">>,
     <<"4", "D", "6", "K", "H", "3">>,
     <<"2", "d", "6", "\t">>,
     <<"2", "\t", "d", "6">>,
     <<"d", "2", "k", "l">>,
     <<"d", "2", "d", "x", "1">>,
     <<"d", "2", "-">>,
     <<"d", "0", "2">>,
     <<"0", "0", "7", "d", "2">>,
     <<"d", "2", "+", "0", "0", "7">>,
     <<"d", "2", "-", "0">>}

\* Digit runs above 1<<63 - 1, where strconv.Atoi returns an error.
OutOfRangeExamples ==
    {<<"d", "9", "9", "9", "9", "9", "9", "9", "9", "9", "9", "9", "9", "9", "9", "9", "9", "9", "9", "9", "9">>,
     <<"2", "d", "6", "+", "9", "9", "9", "9", "9", "9", "9", "9", "9", "9", "9", "9", "9", "9", "9", "9", "9", "9", "9", "9">>,
     <<"2", "d", "6", "k", "h", "9", "9", "9", "9", "9", "9", "9", "9", "9", "9", "9", "9", "9", "9", "9", "9", "9", "9", "9", "9">>,
     <<"9", "9", "9", "9", "9", "9", "9", "9", "9", "9", "9", "9", "9", "9", "9", "9", "9", "9", "9", "9", "d", "6">>,
     <<"d", "9", "2", "2", "3", "3", "7", "2", "0", "3", "6", "8", "5", "4", "7", "7", "5", "8", "0", "8">>,
     <<"2", "d", "6", "-", "9", "2", "2", "3", "3", "7", "2", "0", "3", "6", "8", "5", "4", "7", "7", "5", "8", "0", "8">>,
     <<"d", "0", "0", "0", "9", "9", "9", "9", "9", "9", "9", "9", "9", "9", "9", "9", "9", "9", "9", "9", "9", "9", "9", "9">>}

\* The trailing clauses that are combined, up to three in a row.
SeedClauses ==
    {<<"!">>, <<"k", "h", "1">>, <<"k", "l", "2">>, <<"d", "l", "2">>, <<"+", "1">>, <<"-", "2">>}

ClauseRuns ==
    {<<>>} \cup SeedClauses
      \cup {a \o b : a \in SeedClauses, b \in SeedClauses}
      \cup {a \o b \o c : a \in SeedClauses, b \in SeedClauses, c \in SeedClauses}

ClauseExamples == {h \o r : h \in {<<"d", "2">>, <<"2", "d", "3">>}, r \in ClauseRuns}

SeedTexts ==
    AcceptedExamples \cup ErrorExamples \cup WhitespaceExamples \cup EdgeExamples
      \cup OutOfRangeExamples \cup ClauseExamples

InitParse ==
    /\ notation \in SeedTexts
    /\ expr = NilExpression
    /\ pc = "input"
    /\ i = 0
    /\ rolls = <<>>
    /\ draws = <<>>
    /\ randomBytes = ZeroBytes
    /\ keptIndices = <<>>
    /\ result = NilResult
    /\ err = "nil"
    /\ IdleCalls
    /\ IdleRotation
    /\ IdleTimers
    /\ IdleNumbers
    /\ IdleTui

\* The caller appends one character to the text.
TypeChar(c) ==
    /\ pc = "input"
    /\ Len(notation) < MaxTextLen
    /\ notation' = Append(notation, c)
    /\ UNCHANGED <<expr, pc, i, rolls, draws, randomBytes, keptIndices, result, err>>
    /\ UNCHANGED outsideCall

\* expr, err := Parse(notation)
ParseNotation ==
    /\ pc = "input"
    /\ LET p == Parse(notation) IN
        /\ expr' = p.expr
        /\ pc' = IF p.err THEN "rejected" ELSE "parsed"
        /\ err' = IF p.err THEN "parse" ELSE "nil"
    /\ UNCHANGED <<notation, i, rolls, draws, randomBytes, keptIndices, result>>
    /\ UNCHANGED outsideCall

NextParse == (\E c \in TypedChars : TypeChar(c)) \/ ParseNotation

SpecParse == InitParse /\ [][NextParse]_vars

(***************************************************************************)
(* The rotation tracker (core/tracker/rotation/rotation.go).  Participants *)
(* is 1-based here: the participant at the Go index k is Participants[k+1],*)
(* and CurrentTurn keeps the Go index.                                     *)
(***************************************************************************)
\* The largest number of participants that are added.
MaxParticipants == 3
\* The round after which Next is no longer called.
MaxRound == 3

\* The names that are used, in the order of Go's < on strings (byte by byte:
\* the upper-case letters come before the lower-case ones).
Names ==
    <<<<"A", "p", "p", "l", "e">>, <<"Z", "e", "b", "r", "a">>, <<"a", "p", "p", "l", "e">>>>

Initiatives == {12, 15}

\* The characters of the texts, in the order of their bytes.
ByteOrder == <<"\t", " ", "!", "+", "-">> \o Digits \o UpperCase \o LowerCase

ByteOf(c) == CHOOSE k \in 1..Len(ByteOrder) : ByteOrder[k] = c

\* a < b on two strings: the first byte that differs decides, and a proper
\* prefix is less.
RECURSIVE StringLess(_, _)
StringLess(a, b) ==
    IF b = <<>> THEN FALSE
    ELSE IF a = <<>> THEN TRUE
    ELSE IF a[1] = b[1] THEN StringLess(Tail(a), Tail(b))
    ELSE ByteOf(a[1]) < ByteOf(b[1])

\* A plausible slip: the initiatives compared with "<".
less_Ascending(a, b) ==
    IF a.Initiative = b.Initiative THEN StringLess(a.Name, b.Name)
    ELSE a.Initiative < b.Initiative

\* The less function of Tracker.sort.
less(a, b) ==
    IF a.Initiative = b.Initiative THEN StringLess(a.Name, b.Name)
    ELSE a.Initiative > b.Initiative

\* sort.Slice(ps, less) on the participants at the indices S: every
\* arrangement in which no participant is followed by one that is less.
\* sort.Slice is not stable, so that participants of equal name and
\* initiative may come out in any order.
RECURSIVE SortFrom(_, _)
SortFrom(S, ps) ==
    IF S = {} THEN {<<>>}
    ELSE LET first == {m \in S : \A n \in S : ~less(ps[n], ps[m])}
         IN UNION {{<<ps[m]>> \o t : t \in SortFrom(S \ {m}, ps)} : m \in first}

\* Tracker.sort
sort(ps) == SortFrom(1..Len(ps), ps)

\* A plausible slip: Next takes one step and does not look at IsActive.
NextLoop_NoSkip(t, startIndex) ==
    LET wrapped == t.CurrentTurn + 1 >= Len(t.Participants)
    IN [t EXCEPT !.CurrentTurn = IF wrapped THEN 0 ELSE t.CurrentTurn + 1,
                 !.Round = IF wrapped THEN t.Round + 1 ELSE t.Round]

\* A plausible slip: Round counted in every turn of the loop.
RECURSIVE NextLoop_RoundEveryTurn(_, _)
NextLoop_RoundEveryTurn(t, startIndex) ==
    LET wrapped == t.CurrentTurn + 1 >= Len(t.Participants)
        t2 == [t EXCEPT !.CurrentTurn = IF wrapped THEN 0 ELSE t.CurrentTurn + 1,
                        !.Round = t.Round + 1]
    IN IF t2.CurrentTurn = startIndex THEN t2
       ELSE IF t2.Participants[t2.CurrentTurn + 1].IsActive THEN t2
       ELSE NextLoop_RoundEveryTurn(t2, startIndex)

\* A plausible slip: the loop left as soon as the turn wraps.
RECURSIVE NextLoop_StopOnWrap(_, _)
NextLoop_StopOnWrap(t, startIndex) ==
    LET wrapped == t.CurrentTurn + 1 >= Len(t.Participants)
        t2 == [t EXCEPT !.CurrentTurn = IF wrapped THEN 0 ELSE t.CurrentTurn + 1,
                        !.Round = IF wrapped THEN t.Round + 1 ELSE t.Round]
    IN IF wrapped \/ t2.CurrentTurn = startIndex THEN t2
       ELSE IF t2.Participants[t2.CurrentTurn + 1].IsActive THEN t2
       ELSE NextLoop_StopOnWrap(t2, startIndex)

\* The loop of Tracker.Next, from the turn t stands at.
RECURSIVE NextLoop(_, _)
NextLoop(t, startIndex) ==
    LET wrapped == t.CurrentTurn + 1 >= Len(t.Participants)
        t2 == [t EXCEPT !.CurrentTurn = IF wrapped THEN 0 ELSE t.CurrentTurn + 1,
                        !.Round = IF wrapped THEN t.Round + 1 ELSE t.Round]
    IN IF t2.CurrentTurn = startIndex THEN t2
       ELSE IF t2.Participants[t2.CurrentTurn + 1].IsActive THEN t2
       ELSE NextLoop(t2, startIndex)

\* The number of turns the loop of Tracker.Next takes from the turn t stands
\* at: one for each pass through "t.CurrentTurn++".
RECURSIVE NextLoopTurns(_, _)
NextLoopTurns(t, startIndex) ==
    LET wrapped == t.CurrentTurn + 1 >= Len(t.Participants)
        t2 == [t EXCEPT !.CurrentTurn = IF wrapped THEN 0 ELSE t.CurrentTurn + 1,
                        !.Round = IF wrapped THEN t.Round + 1 ELSE t.Round]
    IN IF t2.CurrentTurn = startIndex THEN 1
       ELSE IF t2.Participants[t2.CurrentTurn + 1].IsActive THEN 1
       ELSE 1 + NextLoopTurns(t2, startIndex)

\* Tracker.GetCurrent: the participant whose turn it is; the participant of no
\* name stands for nil.
NilParticipant == [Name |-> <<>>, Initiative |-> 0, IsActive |-> FALSE]

GetCurrent(t) ==
    IF Len(t.Participants) = 0 THEN NilParticipant
    ELSE IF t.CurrentTurn < 0 \/ t.CurrentTurn >= Len(t.Participants) THEN NilParticipant
    ELSE t.Participants[t.CurrentTurn + 1]

\* The index of the first participant of that name, 0 when there is none.
FirstNamed(ps, name) ==
    IF \E k \in 1..Len(ps) : ps[k].Name = name
    THEN CHOOSE k \in 1..Len(ps) :
           ps[k].Name = name /\ \A j \in 1..(k - 1) : ps[j].Name # name
    ELSE 0

\* MarkOut and MarkIn: the first participant of that name gets the flag; the
\* tracker is left as it is (and an error returned) when there is none.
SetActive(t, name, flag) ==
    LET k == FirstNamed(t.Participants, name)
    IN IF k = 0 THEN t ELSE [t EXCEPT !.Participants[k].IsActive = flag]

InitTracker ==
    /\ tracker = NewTracker
    /\ added = EmptyBag
    /\ last = NoCall
    /\ IdleDice
    /\ IdleCalls
    /\ IdleTimers
    /\ IdleNumbers
    /\ IdleTui

\* Tracker.Add: append the participant, active, and sort.
Add(name, initiative) ==
    /\ Len(tracker.Participants) < MaxParticipants
    /\ \E sorted \in sort(Append(tracker.Participants,
                         [Name |-> name, Initiative |-> initiative, IsActive |-> TRUE])) :
          tracker' = [tracker EXCEPT !.Participants = sorted]
    /\ added' = added (+) SetToBag({<<name, initiative>>})
    /\ last' = [op |-> "Add", before |-> tracker, steps |-> 0]
    /\ UNCHANGED outsideTracker

\* Tracker.Next
TrackerNext ==
    /\ tracker.Round < MaxRound
    /\ tracker' = IF Len(tracker.Participants) = 0 THEN tracker
                  ELSE NextLoop(tracker, tracker.CurrentTurn)
    /\ last' = [op |-> "Next", before |-> tracker,
                steps |-> IF Len(tracker.Participants) = 0 THEN 0
                          ELSE NextLoopTurns(tracker, tracker.CurrentTurn)]
    /\ UNCHANGED added
    /\ UNCHANGED outsideTracker

\* Tracker.MarkOut
MarkOut(name) ==
    /\ tracker' = SetActive(tracker, name, FALSE)
    /\ last' = [op |-> "MarkOut", before |-> tracker, steps |-> 0]
    /\ UNCHANGED added
    /\ UNCHANGED outsideTracker

\* Tracker.MarkIn
MarkIn(name) ==
    /\ tracker' = SetActive(tracker, name, TRUE)
    /\ last' = [op |-> "MarkIn", before |-> tracker, steps |-> 0]
    /\ UNCHANGED added
    /\ UNCHANGED outsideTracker

NextTracker ==
    \/ \E name \in Range(Names), initiative \in Initiatives : Add(name, initiative)
    \/ TrackerNext
    \/ \E name \in Range(Names) : MarkOut(name)
    \/ \E name \in Range(Names) : MarkIn(name)

SpecTracker == InitTracker /\ [][NextTracker]_vars

(***************************************************************************)
(* Concurrent callers of RollExpression.  Each call has its argument, a    *)
(* pointer to an Expression (an index of heap), and its own local          *)
(* variables; a step is one step of one call, so that the calls interleave *)
(* in every way.  rand.Read is safe for concurrent use and hands each call *)
(* its own bytes.                                                          *)
(***************************************************************************)
\* The number of calls that run at the same time.
NumCalls == 2

\* The Expressions the callers hold: "2d2kh1", "d2!" and "d2+2", parsed.
ConcurrentExpressions ==
    {Parse(<<"2", "d", "2", "k", "h", "1">>).expr,
     Parse(<<"d", "2", "!">>).expr,
     Parse(<<"d", "2", "+", "2">>).expr}

\* The local variables of a call that has just been entered with heap[arg].
NewCall(e, arg) ==
    [arg |-> arg, pc |-> "roll", i |-> 0, rolls |-> [k \in 1..DiceToRoll(e) |-> ZeroDie],
     draws |-> <<>>, keptIndices |-> <<>>, result |-> NilResult, err |-> "nil"]

\* A plausible slip: the slice of dice kept in a buffer per Expression, so
\* that the calls on one Expression roll into the slice of the first of them.
RollsOwner_PerExpression(c) ==
    CHOOSE d \in 1..NumCalls :
        /\ calls[d].arg = calls[c].arg
        /\ \A b \in 1..NumCalls : calls[b].arg = calls[c].arg => d <= b

\* rolls := make([]Die, diceToRoll): the call whose slice call c rolls into
\* is c itself.
RollsOwner(c) == c

\* The slice of dice call c works on, and the Expression it was given.
RollsOf(c) == calls[RollsOwner(c)].rolls

ExprOf(c) == heap[calls[c].arg]

InitConcurrent ==
    /\ heap \in {<<a, b>> : a \in ConcurrentExpressions, b \in ConcurrentExpressions}
    /\ \E args \in [1..NumCalls -> 1..Len(heap)] :
          calls = [c \in 1..NumCalls |-> NewCall(heap[args[c]], args[c])]
    /\ IdleDice
    /\ IdleRotation
    /\ IdleTimers
    /\ IdleNumbers
    /\ IdleTui

\* One turn of call c's rolling loop whose rand.Read succeeds.
CallRollDie(c) ==
    /\ calls[c].pc = "roll"
    /\ calls[c].i < DiceToRoll(ExprOf(c))
    /\ \E bytes \in RandomDraws(ExprOf(c).Sides) :
         LET d == rollDie(ExprOf(c).Sides, bytes)
             n == calls[c].i + 1
         IN IF d.err
              THEN calls' = [calls EXCEPT ![c].pc = "error", ![c].err = "sides"]
              ELSE calls' =
                     [calls EXCEPT
                        ![RollsOwner(c)].rolls =
                            [RollsOf(c) EXCEPT ![n] = NewDie(d.value, ExprOf(c).Sides)],
                        ![c].draws = Append(calls[c].draws, d.value),
                        ![c].i = n,
                        ![c].pc = IF n < DiceToRoll(ExprOf(c)) THEN "roll" ELSE "advantage"]
    /\ UNCHANGED heap
    /\ UNCHANGED outsideCalls

\* One turn of call c's rolling loop whose rand.Read fails: return nil, err.
CallRandFail(c) ==
    /\ calls[c].pc = "roll"
    /\ calls[c].i < DiceToRoll(ExprOf(c))
    /\ calls' = [calls EXCEPT ![c].pc = "error", ![c].err = "rand"]
    /\ UNCHANGED heap
    /\ UNCHANGED outsideCalls

\* if expr.Advantage { ... } in call c
CallAdvantage(c) ==
    /\ calls[c].pc = "advantage"
    /\ calls' =
          [calls EXCEPT
             ![RollsOwner(c)].rolls =
                 IF ExprOf(c).Advantage THEN Advantage(RollsOf(c)) ELSE RollsOf(c),
             ![c].pc = "operation"]
    /\ UNCHANGED heap
    /\ UNCHANGED outsideCalls

\* if expr.Operation != nil { applyOperation(rolls, expr.Operation) } in call c
CallOperation(c) ==
    /\ calls[c].pc = "operation"
    /\ IF ExprOf(c).Operation # NilOperation /\ KeptSet(RollsOf(c)) # {}
         THEN \E sorted \in SortSlice(KeptSet(RollsOf(c)), RollsOf(c)) :
                calls' =
                  [calls EXCEPT
                     ![RollsOwner(c)].rolls =
                         MarkDropped(RollsOf(c), IndicesToDrop(ExprOf(c).Operation, sorted)),
                     ![c].keptIndices = sorted,
                     ![c].pc = "totals"]
         ELSE calls' = [calls EXCEPT ![c].pc = "totals"]
    /\ UNCHANGED heap
    /\ UNCHANGED outsideCalls

\* Calculate totals and return the Result, in call c.
CallTotals(c) ==
    /\ calls[c].pc = "totals"
    /\ calls' = [calls EXCEPT ![c].result = MakeResult(ExprOf(c), RollsOf(c)),
                              ![c].pc = "done"]
    /\ UNCHANGED heap
    /\ UNCHANGED outsideCalls

NextConcurrent ==
    \E c \in 1..NumCalls :
        \/ CallRollDie(c)
        \/ CallRandFail(c)
        \/ CallAdvantage(c)
        \/ CallOperation(c)
        \/ CallTotals(c)

SpecConcurrent == InitConcurrent /\ [][NextConcurrent]_vars

(***************************************************************************)
(* The timer registry (timer.Manager, timer.Timer) and the TUI's tickMsg.  *)
(* A Timer is a record; its field addr stands for the pointer, so that two *)
(* Timers of equal fields are still two Timers.  Durations are counted in  *)
(* ticks of the clock.                                                     *)
(***************************************************************************)
\* The last reading of the clock.
MaxClock == 3
\* The largest number of timers that are made.
MaxTimers == 3

Durations == {1, 2}

Labels == {<<>>}

\* generateID: the decimal digits of time.Now().UnixNano()
TimerGenerateID(now) == Itoa(now)

\* timer.NewTimer(duration, label), made at the clock reading now
NewTimer(duration, label, now, addr) ==
    [ID |-> TimerGenerateID(now), StartTime |-> now, Duration |-> duration,
     Label |-> label, addr |-> addr]

\* Timer.IsExpired at the clock reading now
IsExpired(t, now) == now - t.StartTime >= t.Duration

\* Manager.Add: m.timers[timer.ID] = timer
TimersAdd(m, timer) == {t \in m : t.ID # timer.ID} \cup {timer}

\* Manager.Remove: delete(m.timers, id)
TimersRemove(m, id) == {t \in m : t.ID # id}

\* Manager.GetExpired: the expired timers, which it deletes from the map
GetExpired(m, now) == {t \in m : IsExpired(t, now)}

\* The orders in which the range over a map may deliver the timers of S.
Orders(S) ==
    {o \in [1..Cardinality(S) -> S] : \A a, b \in 1..Cardinality(S) : o[a] = o[b] => a = b}

InitTimers ==
    /\ IdleTimers
    /\ IdleDice
    /\ IdleCalls
    /\ IdleRotation
    /\ IdleNumbers
    /\ IdleTui

\* The clock moves on.
ClockTick ==
    /\ clock < MaxClock
    /\ clock' = clock + 1
    /\ UNCHANGED <<timers, timerLog>>
    /\ UNCHANGED outsideTimers

\* handleTimer with a positive duration: NewTimer and Manager.Add.
HandleTimer(duration, label) ==
    /\ Len(timerLog.created) < MaxTimers
    /\ LET timer == NewTimer(duration, label, clock, Len(timerLog.created) + 1)
       IN /\ timers' = TimersAdd(timers, timer)
          /\ timerLog' = [timerLog EXCEPT !.created = Append(@, timer),
                                          !.op = "Add", !.before = timers]
    /\ UNCHANGED clock
    /\ UNCHANGED outsideTimers

\* Manager.Remove
TimerRemove(id) ==
    /\ timers' = TimersRemove(timers, id)
    /\ timerLog' = [timerLog EXCEPT
                      !.removed = @ \cup {t.addr : t \in {x \in timers : x.ID = id}},
                      !.op = "Remove", !.before = timers]
    /\ UNCHANGED clock
    /\ UNCHANGED outsideTimers

\* Manager.Clear
TimerClear ==
    /\ timers' = {}
    /\ timerLog' = [timerLog EXCEPT !.removed = @ \cup {t.addr : t \in timers},
                                    !.op = "Clear", !.before = timers]
    /\ UNCHANGED clock
    /\ UNCHANGED outsideTimers

\* Model.Update on a tickMsg: GetExpired, and one "Alarm finished" line for
\* each timer it returned, in the order it returned them.
TickMsg ==
    /\ \E expired \in Orders(GetExpired(timers, clock)) :
          /\ timers' = timers \ Range(expired)
          /\ timerLog' = [timerLog EXCEPT
                            !.alarms = @ \o [k \in 1..Len(expired) |->
                                               <<expired[k].addr, clock>>],
                            !.op = "GetExpired", !.before = timers, !.polled = clock]
    /\ UNCHANGED clock
    /\ UNCHANGED outsideTimers

NextTimers ==
    \/ ClockTick
    \/ \E duration \in Durations, label \in Labels : HandleTimer(duration, label)
    \/ \E now \in 0..MaxClock : TimerRemove(TimerGenerateID(now))
    \/ TimerClear
    \/ TickMsg

SpecTimers == InitTimers /\ [][NextTimers]_vars

(***************************************************************************)
(* The number-tracker registry (number.Manager, number.Tracker).  Names    *)
(* are texts, as the notations are.                                        *)
(***************************************************************************)
\* The largest number of trackers that are added.
MaxTrackers == 3

TrackerNames == {<<"H", "P">>, <<"h", "p">>, <<"A", "C">>}

TrackerValues == {45}

\* number.generateID: "%d-%d" of the clock and the counter
NumberGenerateID(now, id) == Itoa(now) \o <<"-">> \o Itoa(id)

\* number.NewTracker(name, current, max), with the counter at id
NumberNewTracker(name, current, max, now, id) ==
    [ID |-> NumberGenerateID(now, id), Name |-> name, Current |-> current,
     Max |-> max, Pinned |-> FALSE]

\* The trackers Get and Delete take for name: strings.ToLower(t.Name) ==
\* strings.ToLower(name)
Matching(ts, name) == {t \in ts : ToLower(t.Name) = ToLower(name)}

\* Get's nil
NilNumberTracker == [ID |-> <<>>, Name |-> <<>>, Current |-> 0, Max |-> 0, Pinned |-> FALSE]

\* Manager.Get: the trackers it may return, the first matching one the range
\* over the map delivers; nil when none matches.
NumberGet(ts, name) ==
    IF Matching(ts, name) = {} THEN {NilNumberTracker} ELSE Matching(ts, name)

\* Manager.Count
NumberCount(ts) == Cardinality(ts)

InitNumbers ==
    /\ IdleNumbers
    /\ IdleDice
    /\ IdleCalls
    /\ IdleRotation
    /\ IdleTimers
    /\ IdleTui

\* Manager.Add
NumberAdd(name, current, max) ==
    /\ numbers.idCounter < MaxTrackers
    /\ LET id == numbers.idCounter + 1
       IN numbers' = [trackers |-> numbers.trackers
                                     \cup {NumberNewTracker(name, current, max, clock, id)},
                      idCounter |-> id]
    /\ numberLast' = [op |-> "Add", name |-> name, err |-> FALSE,
                      before |-> numbers.trackers]
    /\ UNCHANGED outsideNumbers

\* Manager.Delete: the first matching tracker the range over the map
\* delivers is deleted, whichever that is; an error when none matches.
NumberDelete(name) ==
    /\ IF Matching(numbers.trackers, name) = {}
         THEN /\ UNCHANGED numbers
              /\ numberLast' = [op |-> "Delete", name |-> name, err |-> TRUE,
                                before |-> numbers.trackers]
         ELSE \E t \in Matching(numbers.trackers, name) :
                /\ numbers' = [numbers EXCEPT !.trackers = @ \ {t}]
                /\ numberLast' = [op |-> "Delete", name |-> name, err |-> FALSE,
                                  before |-> numbers.trackers]
    /\ UNCHANGED outsideNumbers

\* Manager.DeleteAll
NumberDeleteAll ==
    /\ numbers' = [numbers EXCEPT !.trackers = {}]
    /\ numberLast' = [op |-> "DeleteAll", name |-> <<>>, err |-> FALSE,
                      before |-> numbers.trackers]
    /\ UNCHANGED outsideNumbers

NextNumbers ==
    \/ \E name \in TrackerNames, current \in TrackerValues, max \in TrackerValues :
          NumberAdd(name, current, max)
    \/ \E name \in TrackerNames : NumberDelete(name)
    \/ NumberDeleteAll

SpecNumbers == InitNumbers /\ [][NextNumbers]_vars

(***************************************************************************)
(* Vocabulary of the properties.                                           *)
(***************************************************************************)
Min(a, b) == IF a < b THEN a ELSE b

\* The sum of the values of the dice of r at the indices S.
RECURSIVE SumValues(_, _)
SumValues(r, S) ==
    IF S = {} THEN 0
    ELSE LET k == CHOOSE x \in S : TRUE IN r[k].Value + SumValues(r, S \ {k})

\* The sum of a sequence of integers.
RECURSIVE SumInts(_)
SumInts(s) == IF s = <<>> THEN 0 ELSE Head(s) + SumInts(Tail(s))

\* The sum of the n largest values among the dice of r at the indices S.
RECURSIVE SumLargest(_, _, _)
SumLargest(r, S, n) ==
    IF n <= 0 \/ S = {} THEN 0
    ELSE LET m == CHOOSE x \in S : \A y \in S : r[y].Value <= r[x].Value
         IN r[m].Value + SumLargest(r, S \ {m}, n - 1)

\* The sum of the n smallest values among the dice of r at the indices S.
RECURSIVE SumSmallest(_, _, _)
SumSmallest(r, S, n) ==
    IF n <= 0 \/ S = {} THEN 0
    ELSE LET m == CHOOSE x \in S : \A y \in S : r[x].Value <= r[y].Value
         IN r[m].Value + SumSmallest(r, S \ {m}, n - 1)

\* The number of physical dice the expression calls for.
ExpectedDraws == IF expr.Advantage THEN 2 * expr.Count ELSE expr.Count

\* applyOperation has run on an expression that has an operation.
OperationApplied == pc \in {"totals", "done"} /\ expr.Operation # NilOperation

\* The dice that were kept when applyOperation started, and those it dropped.
KeptBefore == Range(keptIndices)

DroppedByOperation == KeptBefore \ KeptSet(rolls)

\* Exactly one die of the pair that starts at a is kept, it is not the smaller
\* one, and a tie keeps the first.
PairExactlyOne(r, a) ==
    /\ r[a].Kept # r[a + 1].Kept
    /\ r[a].Kept => r[a].Value >= r[a + 1].Value
    /\ r[a + 1].Kept => r[a + 1].Value > r[a].Value

\* At most one die of the pair that starts at a is kept, and the die the
\* advantage step drops (the smaller one, the second on a tie) is dropped.
PairAtMostOne(r, a) ==
    /\ ~(r[a].Kept /\ r[a + 1].Kept)
    /\ r[a].Kept => r[a].Value >= r[a + 1].Value
    /\ r[a + 1].Kept => r[a + 1].Value > r[a].Value

PairStarts == {2 * p + 1 : p \in 0..(expr.Count - 1)}

(***************************************************************************)
(* The properties.                                                         *)
(***************************************************************************)

\* C1: every Result has KeptTotal equal to the sum of the values of exactly
\* the kept dice of Rolls, and Total = KeptTotal + Expression.Modifier.
C1_TotalIsKeptPlusModifier ==
    pc = "done" =>
      /\ ~result.IsNil
      /\ result.KeptTotal = SumValues(result.Rolls, KeptSet(result.Rolls))
      /\ result.Total = result.KeptTotal + expr.Modifier

C1_Witness ==
    /\ pc = "done"
    /\ expr.Advantage
    /\ expr.Operation # NilOperation
    /\ expr.Modifier < 0
    /\ DroppedByOperation # {}
    /\ KeptSet(result.Rolls) # {}

\* C2: every die rolled so far, kept or dropped, has a value in 1..Sides and
\* records the Sides of the expression, whatever the draws were.
C2_DieInRange ==
    \A k \in 1..i :
      /\ rolls[k].Value \in 1..expr.Sides
      /\ rolls[k].Sides = expr.Sides

C2_Witness ==
    /\ pc = "done"
    /\ randomBytes = <<255, 255, 255, 255, 255, 255, 255, 255>>
    /\ expr.Sides = 3
    /\ \E k \in 1..i : ~rolls[k].Kept
    /\ \E k \in 1..i : rolls[k].Value = expr.Sides

\* C3: a returned Result rests on exactly Count draws (2 * Count with
\* advantage); Rolls holds one die per draw, dropped ones included, the k-th
\* die showing the k-th draw; no run draws more than that.
C3_DrawsAndRollOrder ==
    /\ Len(draws) <= ExpectedDraws
    /\ pc \in {"advantage", "operation", "totals", "done"} =>
         /\ Len(draws) = ExpectedDraws
         /\ Len(rolls) = Len(draws)
         /\ \A k \in 1..Len(rolls) : rolls[k].Value = draws[k]
    /\ pc = "done" =>
         /\ Len(result.Rolls) = Len(draws)
         /\ \A k \in 1..Len(result.Rolls) : result.Rolls[k].Value = draws[k]

C3_Witness ==
    /\ pc = "done"
    /\ expr.Advantage
    /\ expr.Operation.Type = "OpKeepHighest"
    /\ Len(draws) = 4
    /\ DroppedByOperation # {}
    /\ draws[1] > draws[2]
    /\ draws[3] < draws[4]

\* C4 as claimed: with advantage, in the returned Result exactly one die of
\* each pair is kept, the kept one is not the smaller, and a tie keeps the
\* first die of the pair.
C4_Original ==
    (pc = "done" /\ expr.Advantage) =>
      \A a \in PairStarts : PairExactlyOne(result.Rolls, a)

\* C4 as amended: with advantage, exactly one die of each pair is kept when
\* the advantage step ends, and in the returned Result when the expression
\* has no operation; the kept one is not the smaller and a tie keeps the
\* first.  With an operation the Result keeps at most one die of each pair,
\* never the one the advantage step dropped.
C4_AdvantagePairs ==
    expr.Advantage =>
      /\ pc = "operation" => \A a \in PairStarts : PairExactlyOne(rolls, a)
      /\ (pc = "done" /\ expr.Operation = NilOperation) =>
           \A a \in PairStarts : PairExactlyOne(result.Rolls, a)
      /\ pc = "done" => \A a \in PairStarts : PairAtMostOne(result.Rolls, a)

C4_Witness ==
    /\ pc = "done"
    /\ expr.Advantage
    /\ expr.Operation = NilOperation
    /\ expr.Count = 2
    /\ result.Rolls[1].Value = result.Rolls[2].Value
    /\ result.Rolls[3].Value < result.Rolls[4].Value

\* C5: without operation and without advantage every die of the Result is
\* kept and KeptTotal is the sum of all the rolled values.
C5_PlainRollKeepsAll ==
    (pc = "done" /\ expr.Operation = NilOperation /\ ~expr.Advantage) =>
      /\ Len(result.Rolls) = expr.Count
      /\ \A k \in 1..Len(result.Rolls) : result.Rolls[k].Kept
      /\ result.KeptTotal = SumInts(draws)

C5_Witness ==
    /\ pc = "done"
    /\ expr.Operation = NilOperation
    /\ ~expr.Advantage
    /\ expr.Count = 3
    /\ result.KeptTotal = 7

\* C6: KeepHighest(n) and KeepLowest(n) on k kept dice leave min(n, k) of them
\* kept; when n < k the k - n dice dropped are no higher (KeepHighest), no
\* lower (KeepLowest) than any die that stays kept, and KeptTotal is the sum
\* of the n largest (smallest) of the k values; when n >= k nothing is dropped.
C6_KeepSelects ==
    (OperationApplied /\ expr.Operation.Type \in {"OpKeepHighest", "OpKeepLowest"}) =>
      LET n == expr.Operation.Count
          k == Len(keptIndices)
          highest == expr.Operation.Type = "OpKeepHighest"
      IN /\ k = Cardinality(KeptBefore)
         /\ KeptSet(rolls) \subseteq KeptBefore
         /\ Cardinality(KeptSet(rolls)) = Min(n, k)
         /\ n < k =>
              /\ Cardinality(DroppedByOperation) = k - n
              /\ \A d \in DroppedByOperation : \A c \in KeptSet(rolls) :
                   IF highest THEN rolls[d].Value <= rolls[c].Value
                   ELSE rolls[d].Value >= rolls[c].Value
              /\ pc = "done" =>
                   result.KeptTotal = IF highest THEN SumLargest(rolls, KeptBefore, n)
                                      ELSE SumSmallest(rolls, KeptBefore, n)
         /\ n >= k => DroppedByOperation = {}

C6_Witness ==
    /\ pc = "done"
    /\ expr.Operation.Type = "OpKeepHighest"
    /\ expr.Operation.Count = 2
    /\ Len(keptIndices) = 4
    /\ \E d \in DroppedByOperation : \E c \in KeptSet(rolls) : rolls[d].Value < rolls[c].Value
    /\ \E d \in DroppedByOperation : \E c \in KeptSet(rolls) : rolls[d].Value = rolls[c].Value

\* C7: DropHighest(n) and DropLowest(n) on k kept dice drop exactly the n
\* highest (lowest) when n <= k, all of them when n = k, which leaves
\* KeptTotal = 0; when n > k nothing is dropped, and a Result is returned
\* without error all the same.
C7_DropSelects ==
    (OperationApplied /\ expr.Operation.Type \in {"OpDropHighest", "OpDropLowest"}) =>
      LET n == expr.Operation.Count
          k == Len(keptIndices)
          highest == expr.Operation.Type = "OpDropHighest"
      IN /\ k = Cardinality(KeptBefore)
         /\ KeptSet(rolls) \subseteq KeptBefore
         /\ n <= k =>
              /\ Cardinality(DroppedByOperation) = n
              /\ \A d \in DroppedByOperation : \A c \in KeptSet(rolls) :
                   IF highest THEN rolls[d].Value >= rolls[c].Value
                   ELSE rolls[d].Value <= rolls[c].Value
              /\ pc = "done" =>
                   result.KeptTotal = IF highest THEN SumSmallest(rolls, KeptBefore, k - n)
                                      ELSE SumLargest(rolls, KeptBefore, k - n)
         /\ n = k => /\ KeptSet(rolls) = {}
                     /\ pc = "done" => result.KeptTotal = 0
         /\ n > k => DroppedByOperation = {}
         /\ err = "nil"
         /\ pc = "done" => ~result.IsNil

C7_Witness ==
    /\ pc = "done"
    /\ expr.Operation.Type = "OpDropHighest"
    /\ expr.Operation.Count = 3
    /\ Len(keptIndices) = 3
    /\ KeptSet(result.Rolls) = {}
    /\ result.KeptTotal = 0
    /\ ~result.IsNil

\* p is ordered by value ascending, ties by roll index ascending.
StableOrder(p, r) ==
    \A a \in 1..Len(p) : \A b \in 1..Len(p) :
      a < b => \/ r[p[a]].Value < r[p[b]].Value
               \/ (r[p[a]].Value = r[p[b]].Value /\ p[a] < p[b])

\* The dice a stable order of the kept dice would drop: the Take lowest in
\* (value, index) order when Low, the Take highest otherwise.
RECURSIVE StableDrop(_, _, _, _)
StableDrop(r, S, take, low) ==
    IF take <= 0 \/ S = {} THEN {}
    ELSE LET m == IF low
                  THEN CHOOSE x \in S : \A y \in S \ {x} :
                         \/ r[x].Value < r[y].Value
                         \/ (r[x].Value = r[y].Value /\ x < y)
                  ELSE CHOOSE x \in S : \A y \in S \ {x} :
                         \/ r[x].Value > r[y].Value
                         \/ (r[x].Value = r[y].Value /\ x > y)
         IN {m} \cup StableDrop(r, S \ {m}, take - 1, low)

\* C8: the operation orders the kept dice by value ascending, ties by roll
\* index ascending, and drops a prefix (KeepHighest, DropLowest) or a suffix
\* (KeepLowest, DropHighest) of that order, so that the dropped indices are
\* determined by the rolls alone.
C8_StableTieBreak ==
    OperationApplied =>
      LET n == expr.Operation.Count
          k == Len(keptIndices)
          t == expr.Operation.Type
          take == CASE t \in {"OpKeepHighest", "OpKeepLowest"} -> IF n < k THEN k - n ELSE 0
                    [] OTHER -> IF n <= k THEN n ELSE 0
      IN /\ StableOrder(keptIndices, rolls)
         /\ DroppedByOperation =
              StableDrop(rolls, KeptBefore, take, t \in {"OpKeepHighest", "OpDropLowest"})

\* C9: on the same rolls and the same len kept dice, for 1 <= n < len,
\* KeepHighest(n) and DropLowest(len - n) drop the same set of roll indices:
\* whichever of the two the expression asks for, the dice it dropped are those
\* the other one selects.
C9_KeepHighestIsDropLowest ==
    OperationApplied =>
      LET len == Len(keptIndices) IN
        \A n \in 1..(len - 1) :
          LET kh == [Type |-> "OpKeepHighest", Count |-> n]
              dl == [Type |-> "OpDropLowest", Count |-> len - n]
          IN /\ Range(IndicesToDrop(kh, keptIndices)) = Range(IndicesToDrop(dl, keptIndices))
             /\ Cardinality(Range(IndicesToDrop(dl, keptIndices))) = len - n
             /\ expr.Operation = kh =>
                  DroppedByOperation = Range(IndicesToDrop(dl, keptIndices))
             /\ expr.Operation = dl =>
                  DroppedByOperation = Range(IndicesToDrop(kh, keptIndices))

C9_Witness ==
    /\ pc = "done"
    /\ expr.Operation = [Type |-> "OpDropLowest", Count |-> 2]
    /\ Len(keptIndices) = 3
    /\ Cardinality(DroppedByOperation) = 2
    /\ \E d \in DroppedByOperation : \E c \in KeptSet(rolls) : rolls[d].Value = rolls[c].Value

\* The scenario of the documentation: "4d6kh3" has returned on the rolls
\* 5, 2, 6, 1.
Scenario4d6kh3Done ==
    /\ pc = "done"
    /\ notation = <<"4", "d", "6", "k", "h", "3">>
    /\ draws = <<5, 2, 6, 1>>

\* C10 as claimed: the expression parsed from "4d6kh3", on the rolls
\* 5, 2, 6, 1, has a keptTotal of 14, said to be the sum of the three largest
\* rolls.
C10_Original ==
    Scenario4d6kh3Done =>
      /\ expr.Operation = [Type |-> "OpKeepHighest", Count |-> 3]
      /\ result.KeptTotal = 14

\* C10 as amended: the expression parsed from "4d6kh3" is KeepHighest(3) on
\* four six-sided dice and, on the rolls 5, 2, 6, 1, keeps 5, 2 and 6 and has
\* a keptTotal equal to the sum of the three largest rolls, which is 13.
C10_Scenario4d6kh3 ==
    Scenario4d6kh3Done =>
      /\ expr = [Count |-> 4, Sides |-> 6, Modifier |-> 0, Advantage |-> FALSE,
                 Operation |-> [Type |-> "OpKeepHighest", Count |-> 3]]
      /\ result.KeptTotal = 13
      /\ result.KeptTotal = SumLargest(result.Rolls, 1..4, 3)
      /\ KeptSet(result.Rolls) = {1, 2, 3}
      /\ result.Total = 13

C10_Witness ==
    /\ Scenario4d6kh3Done
    /\ result.KeptTotal = 13
    /\ ~result.Rolls[4].Kept

\* C11: the sum of the kept dice, before the modifier, lies between Count and
\* Count * Sides for every expression ([100, 600] for 100d6), whatever the
\* expression's advantage flag and operation.
C11_Original ==
    pc = "done" =>
        /\ result.KeptTotal >= expr.Count
        /\ result.KeptTotal <= expr.Count * expr.Sides

\* C11 as the code has it: with m dice kept the sum lies between m and
\* m * Sides; m is at most Count, and it is Count when the expression has no
\* operation, so that only then the sum is also at least Count.
C11_KeptTotalRange ==
    pc = "done" =>
        LET m == Cardinality(KeptSet(result.Rolls)) IN
        /\ m <= expr.Count
        /\ result.KeptTotal >= m
        /\ result.KeptTotal <= m * expr.Sides
        /\ result.KeptTotal <= expr.Count * expr.Sides
        /\ expr.Operation = NilOperation =>
              /\ m = expr.Count
              /\ result.KeptTotal >= expr.Count

C11_Witness ==
    /\ pc = "done"
    /\ expr.Operation = NilOperation
    /\ expr.Advantage
    /\ expr.Count >= 2
    /\ result.KeptTotal = expr.Count * expr.Sides

\* C12: a call on a parsed expression fails exactly when a random draw
\* fails; the failure is that of the first failing draw, nothing is drawn
\* after it, and no Result is returned, whatever had been rolled before it;
\* a call whose draws all succeed can always go on, and ends with a Result and
\* no error.
C12_ErrorIffDrawFails ==
    /\ err \in {"nil", "rand"}
    /\ (pc = "error") <=> (err = "rand")
    /\ pc = "error" => result = NilResult /\ ~ENABLED Next
    /\ pc = "done" => ~result.IsNil /\ err = "nil"
    /\ pc \notin {"done", "error"} =>
          ENABLED (RollDie \/ ApplyAdvantage \/ ApplyOperation \/ Totals)

C12_Witness ==
    /\ pc = "error"
    /\ err = "rand"
    /\ i >= 1
    /\ result.IsNil

\* C19: the Roll that the legacy RollDice returns for an accepted notation
\* has as many Results as its Count says, and its Total is the sum of its
\* Results.
C19_LegacyRollShape ==
    pc = "done" =>
        LET roll == RollDice(notation, expr, result) IN
        /\ Len(roll.Results) = roll.Count
        /\ roll.Total = SumInts(roll.Results)

(***************************************************************************)
(* Vocabulary of the parser's properties: the grammar                      *)
(*     expr   := count? 'd' sides clause*                                  *)
(*     clause := '!' | ('k'|'d') ('h'|'l') digits | ('+'|'-') digits       *)
(* stated on the text, with no cursor.                                     *)
(***************************************************************************)
\* The text the grammar is matched on: spaces taken out, letters lowered.
Normalise(text) == ToLower(RemoveSpaces(text))

\* What Parse returned in a state where it has returned.
Outcome == [err |-> pc = "rejected", expr |-> expr]

Returned == pc \in {"parsed", "rejected"}

AllDigits(s) == s # <<>> /\ \A k \in 1..Len(s) : IsDigit(s[k])

\* The length of the longest run of digits s starts with.
LeadDigits(s) ==
    CHOOSE n \in 0..Len(s) :
        /\ \A k \in 1..n : IsDigit(s[k])
        /\ n = Len(s) \/ ~IsDigit(s[n + 1])

IsAdvantageClause(c) == c = <<"!">>

IsOperationClause(c) ==
    /\ Len(c) >= 3
    /\ c[1] \in {"k", "d"}
    /\ c[2] \in {"h", "l"}
    /\ AllDigits(SubSeq(c, 3, Len(c)))

IsModifierClause(c) == Len(c) >= 2 /\ c[1] \in {"+", "-"} /\ AllDigits(Tail(c))

IsClause(c) == IsAdvantageClause(c) \/ IsOperationClause(c) \/ IsModifierClause(c)

\* r is a concatenation of clauses.
RECURSIVE IsClauses(_)
IsClauses(r) ==
    \/ r = <<>>
    \/ \E k \in 1..Len(r) :
          IsClause(SubSeq(r, 1, k)) /\ IsClauses(SubSeq(r, k + 1, Len(r)))

\* The clauses r is the concatenation of, in order.
RECURSIVE ClausesOf(_)
ClausesOf(r) ==
    IF r = <<>> THEN <<>>
    ELSE LET k == CHOOSE n \in 1..Len(r) :
                    IsClause(SubSeq(r, 1, n)) /\ IsClauses(SubSeq(r, n + 1, Len(r)))
         IN <<SubSeq(r, 1, k)>> \o ClausesOf(SubSeq(r, k + 1, Len(r)))

\* The parts of a text: the digits before the first other character, whether
\* that character is 'd', the digits after it, and the rest.
GrammarParts(s) ==
    LET c == LeadDigits(s)
        afterD == SubSeq(s, c + 2, Len(s))
        n == LeadDigits(afterD)
    IN [count   |-> SubSeq(s, 1, c),
        hasD    |-> c < Len(s) /\ s[c + 1] = "d",
        sides   |-> SubSeq(afterD, 1, n),
        clauses |-> SubSeq(afterD, n + 1, Len(afterD))]

\* The number a digit run writes is at least n (n below 10^9).
NumAtLeast(ds, n) ==
    LET t == StripZeros(ds) IN Len(t) > 9 \/ Atoi(t) >= n

\* The number a digit run writes is above 1<<63 - 1.
ExceedsMaxInt(ds) ==
    LET t == StripZeros(ds) IN
    \/ Len(t) > Len(MaxIntDigits)
    \/ /\ Len(t) = Len(MaxIntDigits)
       /\ \E k \in 1..Len(t) :
             /\ DigitVal(t[k]) > DigitVal(MaxIntDigits[k])
             /\ \A j \in 1..(k - 1) : t[j] = MaxIntDigits[j]

\* The digits of an operation or modifier clause.
ClauseDigits(c) == IF IsOperationClause(c) THEN SubSeq(c, 3, Len(c)) ELSE Tail(c)

\* count? 'd' sides clause*, count in [1, 1000], sides >= 2, operation
\* count >= 1, each sign followed by digits.
MatchesGrammar(s) ==
    LET g == GrammarParts(s) IN
    /\ g.hasD
    /\ g.count # <<>> => NumAtLeast(g.count, 1) /\ ~NumAtLeast(g.count, 1001)
    /\ g.sides # <<>>
    /\ NumAtLeast(g.sides, 2)
    /\ IsClauses(g.clauses)
    /\ \A k \in 1..Len(ClausesOf(g.clauses)) :
          LET c == ClausesOf(g.clauses)[k] IN
          IsOperationClause(c) => NumAtLeast(ClauseDigits(c), 1)

\* No number of a text that matches the grammar is above 1<<63 - 1.
NumbersFitInt(s) ==
    LET g == GrammarParts(s) IN
    /\ ~ExceedsMaxInt(g.sides)
    /\ \A k \in 1..Len(ClausesOf(g.clauses)) :
          LET c == ClausesOf(g.clauses)[k] IN
          ~IsAdvantageClause(c) => ~ExceedsMaxInt(ClauseDigits(c))

\* C13: an Expression that Parse returns has a count from 1 to 1000, at
\* least two sides, and either no operation or one with a count of at least 1.
C13_ParsedExpressionValid ==
    pc = "parsed" =>
        /\ expr.Count >= 1
        /\ expr.Count <= 1000
        /\ expr.Sides >= 2
        /\ \/ expr.Operation = NilOperation
           \/ expr.Operation.Type \in OpTypes /\ expr.Operation.Count >= 1

C13_Witness ==
    /\ pc = "parsed"
    /\ expr.Count = 1000
    /\ expr.Sides = 2
    /\ expr.Operation # NilOperation
    /\ expr.Operation.Count = 1

\* C14: Parse returns an Expression exactly for the texts that match the
\* grammar, and an error for every other text.
C14_Original ==
    Returned => ((pc = "parsed") <=> MatchesGrammar(Normalise(notation)))

\* C14 as the code has it: Parse returns an Expression exactly for the texts
\* that match the grammar and whose numbers all fit an int, and an error for
\* every other text, among them the eleven of the tests.
C14_ParseAcceptsGrammar ==
    Returned =>
        /\ (pc = "parsed") <=>
              (MatchesGrammar(Normalise(notation)) /\ NumbersFitInt(Normalise(notation)))
        /\ notation \in ErrorExamples => pc = "rejected"
        /\ pc = "rejected" => expr = NilExpression /\ err = "parse"

C14_Witness ==
    /\ pc = "rejected"
    /\ MatchesGrammar(Normalise(notation))
    /\ ~NumbersFitInt(Normalise(notation))

\* The clauses of the text Parse was given, and the text before them.
TextClauses == ClausesOf(GrammarParts(Normalise(notation)).clauses)

TextHead ==
    LET s == Normalise(notation)
    IN SubSeq(s, 1, Len(s) - Len(GrammarParts(s).clauses))

\* The positions of the clauses of one kind.
AdvantageAt == {k \in 1..Len(TextClauses) : IsAdvantageClause(TextClauses[k])}
OperationAt == {k \in 1..Len(TextClauses) : IsOperationClause(TextClauses[k])}
ModifierAt == {k \in 1..Len(TextClauses) : IsModifierClause(TextClauses[k])}

Last(S) == CHOOSE k \in S : \A j \in S : j <= k

\* What an operation clause and a modifier clause say.
OperationOfClause(c) ==
    [Type  |-> CASE c[1] = "k" /\ c[2] = "h" -> "OpKeepHighest"
                 [] c[1] = "k" /\ c[2] = "l" -> "OpKeepLowest"
                 [] c[1] = "d" /\ c[2] = "h" -> "OpDropHighest"
                 [] c[1] = "d" /\ c[2] = "l" -> "OpDropLowest",
     Count |-> Atoi(ClauseDigits(c))]

ModifierOfClause(c) == IF c[1] = "-" THEN 0 - Atoi(Tail(c)) ELSE Atoi(Tail(c))

RECURSIVE Concat(_)
Concat(ss) == IF ss = <<>> THEN <<>> ELSE Head(ss) \o Concat(Tail(ss))

\* The text without the clauses at the positions S.
WithoutClauses(S) ==
    LET keep == {k \in 1..Len(TextClauses) : k \notin S}
        nth(n) == CHOOSE k \in keep : Cardinality({j \in keep : j < k}) = n - 1
    IN TextHead \o Concat([n \in 1..Cardinality(keep) |-> TextClauses[nth(n)]])

\* C15: whatever the order and the repetition of the trailing clauses, the
\* Modifier is that of the last modifier clause (0 without one), the
\* Operation that of the last operation clause (nil without one), Advantage
\* is set exactly when there is a '!' clause, and taking all the clauses of
\* one kind out of the text changes nothing in the fields of the other kinds.
C15_LastClauseWins ==
    pc = "parsed" =>
        /\ expr.Modifier =
              IF ModifierAt = {} THEN 0 ELSE ModifierOfClause(TextClauses[Last(ModifierAt)])
        /\ expr.Operation =
              IF OperationAt = {} THEN NilOperation
              ELSE OperationOfClause(TextClauses[Last(OperationAt)])
        /\ expr.Advantage <=> AdvantageAt # {}
        /\ LET noAdv == Parse(WithoutClauses(AdvantageAt))
               noOp == Parse(WithoutClauses(OperationAt))
               noMod == Parse(WithoutClauses(ModifierAt))
           IN /\ ~noAdv.err /\ ~noOp.err /\ ~noMod.err
              /\ noAdv.expr = [expr EXCEPT !.Advantage = FALSE]
              /\ noOp.expr = [expr EXCEPT !.Operation = NilOperation]
              /\ noMod.expr = [expr EXCEPT !.Modifier = 0]

C15_Witness ==
    /\ pc = "parsed"
    /\ Len(TextClauses) = 3
    /\ IsOperationClause(TextClauses[1])
    /\ IsModifierClause(TextClauses[2])
    /\ IsOperationClause(TextClauses[3])
    /\ TextClauses[1] # TextClauses[3]
    /\ expr.Operation = OperationOfClause(TextClauses[3])
    /\ expr.Modifier # 0

\* C16: writing the fields of an Expression that Parse returned as a
\* notation, the way Result.String and formatOperation do, and parsing that
\* notation gives the same Expression again.
C16_RoundTrip ==
    pc = "parsed" =>
        Parse(ReconstructNotation(expr)) = [err |-> FALSE, expr |-> expr]

C16_Witness ==
    /\ pc = "parsed"
    /\ expr.Advantage
    /\ expr.Operation # NilOperation
    /\ expr.Modifier < 0
    /\ ReconstructNotation(expr) # Normalise(notation)

\* The whitespace characters of a text: the space and the tab.
Whitespace == {" ", "\t"}

InsertAt(s, k, c) == SubSeq(s, 1, k) \o <<c>> \o SubSeq(s, k + 1, Len(s))

RemoveAt(s, k) == SubSeq(s, 1, k - 1) \o SubSeq(s, k + 1, Len(s))

\* A letter in its other case; any other character as it is.
SwapCaseChar(c) ==
    CASE c = "d" -> "D" [] c = "D" -> "d"
      [] c = "k" -> "K" [] c = "K" -> "k"
      [] c = "h" -> "H" [] c = "H" -> "h"
      [] c = "l" -> "L" [] c = "L" -> "l"
      [] c = "x" -> "X" [] c = "X" -> "x"
      [] OTHER -> c

\* What Parse returns is the same after one character of the set W is put in
\* anywhere, after one is taken out, and after one letter changes its case.
SameOutcomeUnder(W) ==
    /\ \A k \in 0..Len(notation) : \A w \in W :
          Parse(InsertAt(notation, k, w)) = Outcome
    /\ \A k \in 1..Len(notation) :
          /\ notation[k] \in W => Parse(RemoveAt(notation, k)) = Outcome
          /\ Parse([notation EXCEPT ![k] = SwapCaseChar(notation[k])]) = Outcome

\* C17: what Parse returns for a non-empty notation does not change when a
\* whitespace character is inserted or removed anywhere in it, nor when a
\* letter changes its case.
C17_WhitespaceAndCase ==
    (Returned /\ notation # <<>>) => SameOutcomeUnder(Whitespace)

\* The number of participants of a tracker with that name and initiative.
CountKey(ps, key) ==
    Cardinality({k \in 1..Len(ps) : <<ps[k].Name, ps[k].Initiative>> = key})

\* The number of participants of a tracker that are equal to p.
CountParticipant(ps, p) == Cardinality({k \in 1..Len(ps) : ps[k] = p})

\* Participants is in order: initiative descending, and name ascending among
\* equal initiatives.
ParticipantsOrdered ==
    \A k \in 1..(Len(tracker.Participants) - 1) :
        LET a == tracker.Participants[k]
            b == tracker.Participants[k + 1]
        IN \/ a.Initiative > b.Initiative
           \/ a.Initiative = b.Initiative /\ ~StringLess(b.Name, a.Name)

\* Every participant handed to Add is in Participants once for each time it
\* was handed in, and nothing else is.
AddedPresentOnce ==
    /\ Len(tracker.Participants) = BagCardinality(added)
    /\ \A name \in Range(Names), initiative \in Initiatives :
          CountKey(tracker.Participants, <<name, initiative>>)
            = CopiesIn(<<name, initiative>>, added)

\* A step that adds a participant adds an active one and leaves the others,
\* their flags included, as they were; any other step keeps the names and
\* initiatives.
AddedStartsActive ==
    LET old == tracker.Participants
        new == tracker'.Participants
    IN IF added' # added
       THEN \E k \in 1..Len(new) :
              /\ new[k].IsActive
              /\ <<new[k].Name, new[k].Initiative>> \in BagToSet(added' (-) added)
              /\ \A p \in Range(new) :
                    CountParticipant(new, p)
                      = CountParticipant(old, p) + (IF p = new[k] THEN 1 ELSE 0)
       ELSE [k \in 1..Len(new) |-> <<new[k].Name, new[k].Initiative>>]
              = [k \in 1..Len(old) |-> <<old[k].Name, old[k].Initiative>>]

\* C20: after any sequence of Add, Next, MarkOut and MarkIn, Participants is
\* ordered by Initiative descending and by Name ascending among equal
\* Initiative, every added participant is in it exactly once, and a
\* participant is active when it is added.
C20_SortedAndPresent ==
    /\ [](ParticipantsOrdered /\ AddedPresentOnce)
    /\ [][AddedStartsActive]_vars

C20_Witness ==
    /\ Len(tracker.Participants) = 3
    /\ tracker.Participants[1].Initiative = tracker.Participants[2].Initiative
    /\ tracker.Participants[1].Name # tracker.Participants[2].Name
    /\ tracker.Participants[3].Initiative < tracker.Participants[2].Initiative
    /\ ~tracker.Participants[2].IsActive
    /\ tracker.Round = 2
    /\ ParticipantsOrdered
    /\ AddedPresentOnce

\* The Results a call on e may return when its own draws are ds: the dice
\* are the draws, advantage and the operation act on them, and only the order
\* sort.Slice gives to equal dice is open.
ResultsFromDraws(e, ds) ==
    LET r0 == [k \in 1..Len(ds) |-> [Value |-> ds[k], Sides |-> e.Sides, Kept |-> TRUE]]
        a == IF e.Advantage THEN Advantage(r0) ELSE r0
    IN IF e.Operation # NilOperation /\ KeptSet(a) # {}
       THEN {MakeResult(e, MarkDropped(a, IndicesToDrop(e.Operation, s))) :
               s \in SortSlice(KeptSet(a), a)}
       ELSE {MakeResult(e, a)}

\* A call that has returned a Result has made as many draws as its
\* Expression asks for, and the Result is one its own draws give.
OwnDrawsDecide ==
    \A c \in 1..NumCalls :
        calls[c].pc = "done" =>
            /\ Len(calls[c].draws) = DiceToRoll(ExprOf(c))
            /\ calls[c].result \in ResultsFromDraws(ExprOf(c), calls[c].draws)

\* A step changes the local variables of at most one call, and no
\* Expression.
NothingShared ==
    /\ heap' = heap
    /\ \A c \in 1..NumCalls, d \in 1..NumCalls :
          (c # d /\ calls'[c] # calls[c]) => calls'[d] = calls[d]

\* C18: however concurrent calls of RollExpression interleave, also calls on
\* the same Expression, the Result of each is decided by its own draws alone,
\* no call writes what another reads, and no Expression is modified.
C18_CallsIndependent ==
    /\ []OwnDrawsDecide
    /\ [][NothingShared]_vars

C18_Witness ==
    /\ calls[1].pc = "done"
    /\ calls[2].pc = "done"
    /\ calls[1].arg = calls[2].arg
    /\ ExprOf(1).Operation # NilOperation
    /\ calls[1].result # calls[2].result
    /\ OwnDrawsDecide

(***************************************************************************)
(* Advantage and an operation in one Expression.                           *)
(***************************************************************************)
\* The dice as they were after the rolling loop and the advantage step.
AfterAdvantage == Advantage([k \in 1..Len(draws) |-> NewDie(draws[k], expr.Sides)])

\* The number of dice the operation leaves kept when it selects among m dice.
KeptAfterOperation(op, m) ==
    CASE op.Type \in {"OpKeepHighest", "OpKeepLowest"} -> Min(op.Count, m)
      [] op.Type \in {"OpDropHighest", "OpDropLowest"} ->
           IF op.Count <= m THEN m - op.Count ELSE m
      [] OTHER -> m

AdvantageThenOperation ==
    (OperationApplied /\ expr.Advantage) =>
      /\ Range(keptIndices) = KeptSet(AfterAdvantage)
      /\ Len(keptIndices) = expr.Count
      /\ Cardinality(KeptSet(rolls)) = KeptAfterOperation(expr.Operation, expr.Count)
      /\ KeptSet(rolls) \subseteq KeptSet(AfterAdvantage)
      /\ (pc = "done" => KeptSet(result.Rolls) \subseteq KeptSet(AfterAdvantage))

\* A die that was rolled keeps its value, and its Kept goes from true to
\* false or stays.
KeptOnlyCleared ==
    \A k \in 1..i :
       /\ rolls'[k].Value = rolls[k].Value
       /\ rolls'[k].Kept => rolls[k].Kept

\* C25: with advantage and an operation, the operation selects among the dice
\* advantage left kept: its n is compared with Count (not 2*Count), a die
\* advantage dropped is not kept in the Result, and the Kept flag of a rolled
\* die only ever goes from true to false.
C25_OperationAfterAdvantage == []AdvantageThenOperation /\ [][KeptOnlyCleared]_vars

\* 2d3!kh2 and the like: n = Count, so that the operation drops nothing,
\* where a comparison with 2*Count would drop two dice.
C25_Witness ==
    /\ pc = "done"
    /\ expr.Advantage
    /\ expr.Count = 2
    /\ expr.Operation = [Type |-> "OpKeepHighest", Count |-> 2]
    /\ Cardinality(KeptSet(result.Rolls)) = 2
    /\ KeptSet(result.Rolls) = KeptSet(AfterAdvantage)

(***************************************************************************)
(* The rotation tracker's turn.  last.before is the tracker as the last    *)
(* call found it, tracker is the tracker as that call left it.             *)
(***************************************************************************)
\* The Go index k steps after the index from, in a list of n participants.
StepsAfter(from, k, n) == (from + k) % n

\* The number of steps, 1..n, from the index from forward to the index to.
Distance(from, to, n) == ((to - from + n - 1) % n) + 1

AfterNext == last.op = "Next" /\ Len(last.before.Participants) > 0

ActiveIndices(t) == {k \in 0..(Len(t.Participants) - 1) : t.Participants[k + 1].IsActive}

\* C21: Next moves the turn to the first active participant strictly after
\* the old position in cyclic order, skipping every inactive one; afterwards
\* the current participant is active whenever one is active at all, and the
\* turn is back on the old position only when no other participant is active.
C21_NextSkipsInactive ==
    AfterNext =>
      LET n == Len(last.before.Participants)
          old == last.before.CurrentTurn
          new == tracker.CurrentTurn
          d == Distance(old, new, n)
      IN /\ tracker.Participants = last.before.Participants
         /\ \A k \in 1..(d - 1) : StepsAfter(old, k, n) \notin ActiveIndices(tracker)
         /\ d < n => new \in ActiveIndices(tracker)
         /\ ActiveIndices(tracker) # {} => GetCurrent(tracker).IsActive
         /\ new = old => ActiveIndices(tracker) \subseteq {old}

\* Next went over an inactive participant to an active one.
C21_Witness ==
    /\ AfterNext
    /\ Len(tracker.Participants) = 3
    /\ Distance(last.before.CurrentTurn, tracker.CurrentTurn, 3) = 2
    /\ tracker.CurrentTurn \in ActiveIndices(tracker)

\* Round is 1 at the start and no call lowers it; Add, MarkOut and MarkIn
\* leave it as it is.
RoundKept ==
    /\ tracker.Round >= 1
    /\ last.op = "none" => tracker.Round = 1
    /\ tracker.Round >= last.before.Round
    /\ last.op \in {"Add", "MarkOut", "MarkIn"} => tracker.Round = last.before.Round

\* C22 as stated: one Next adds exactly 1 to Round when the new CurrentTurn
\* is <= the old one, and leaves Round as it is otherwise.
C22_Original ==
    /\ RoundKept
    /\ last.op = "Next" =>
          tracker.Round = IF tracker.CurrentTurn <= last.before.CurrentTurn
                          THEN last.before.Round + 1 ELSE last.before.Round

\* C22, amended: on a tracker with participants one Next adds exactly 1 to
\* Round when the new CurrentTurn is <= the old one and leaves Round as it is
\* otherwise; on a tracker without participants Next changes nothing.
C22_RoundOnWrap ==
    /\ RoundKept
    /\ AfterNext =>
          tracker.Round = IF tracker.CurrentTurn <= last.before.CurrentTurn
                          THEN last.before.Round + 1 ELSE last.before.Round
    /\ (last.op = "Next" /\ ~AfterNext) => tracker = last.before

\* A Next that wrapped behind the last participant, after one that did not.
C22_Witness ==
    /\ AfterNext
    /\ Len(tracker.Participants) = 3
    /\ last.before.Round = 1
    /\ last.before.CurrentTurn = 2
    /\ tracker.CurrentTurn = 0
    /\ tracker.Round = 2

\* C26: Add on a tracker that has participants leaves the turn with the
\* participant who had it.
C26_AddKeepsCurrent ==
    (last.op = "Add" /\ Len(last.before.Participants) > 0) =>
       GetCurrent(tracker) = GetCurrent(last.before)

\* C27: CurrentTurn is 0 without participants and an index of Participants
\* otherwise, so that GetCurrent is nil only on a tracker without
\* participants.
C27_TurnInRange ==
    /\ Len(tracker.Participants) = 0 => tracker.CurrentTurn = 0
    /\ Len(tracker.Participants) > 0 =>
          (0 <= tracker.CurrentTurn /\ tracker.CurrentTurn < Len(tracker.Participants))
    /\ GetCurrent(tracker) = NilParticipant <=> Len(tracker.Participants) = 0

\* A third participant added while the turn is on the second index.
C27_Witness ==
    /\ last.op = "Add"
    /\ Len(tracker.Participants) = 3
    /\ tracker.CurrentTurn = 1
    /\ last.before.CurrentTurn = 1
    /\ GetCurrent(tracker) # NilParticipant

\* C28: the search loop of Next takes at most len(Participants) turns; with
\* no participant active it takes them all and ends on the index it began
\* on, Round one higher; so it does with a single participant.
C28_NextTerminates ==
    last.op = "Next" =>
      LET n == Len(last.before.Participants) IN
      /\ last.steps <= n
      /\ (n > 0 /\ ActiveIndices(last.before) = {}) =>
            /\ last.steps = n
            /\ tracker.CurrentTurn = last.before.CurrentTurn
            /\ tracker.Round = last.before.Round + 1
      /\ n = 1 =>
            /\ last.steps = 1
            /\ tracker.CurrentTurn = 0
            /\ tracker.Round = last.before.Round + 1

\* Next on three participants who are all inactive, from the middle one.
C28_Witness ==
    /\ AfterNext
    /\ Len(tracker.Participants) = 3
    /\ ActiveIndices(tracker) = {}
    /\ last.before.CurrentTurn = 1
    /\ last.steps = 3

(***************************************************************************)
(* The timer registry's alarms.                                            *)
(***************************************************************************)
\* The clock reading from which the timer is expired.
Deadline(t) == t.StartTime + t.Duration

\* The number of "Alarm finished" lines for the timer at addr.
AlarmsOf(addr) ==
    Cardinality({k \in 1..Len(timerLog.alarms) : timerLog.alarms[k][1] = addr})

\* GetExpired returned and removed exactly the timers that had expired.
OnlyExpiredTaken ==
    timerLog.op = "GetExpired" =>
       timerLog.before \ timers = {t \in timerLog.before : IsExpired(t, timerLog.polled)}

\* C23: every timer added and not taken out by Remove or Clear is returned
\* by GetExpired exactly once, by the first call at or after its deadline,
\* and is not in the registry afterwards; GetExpired returns and removes
\* no timer that has not expired; so there is exactly one "Alarm finished"
\* line for each timer.
C23_AlarmExactlyOnce ==
    /\ OnlyExpiredTaken
    /\ \A addr \in 1..Len(timerLog.created) :
         LET t == timerLog.created[addr] IN
         /\ AlarmsOf(addr) <= 1
         /\ \A k \in 1..Len(timerLog.alarms) :
               timerLog.alarms[k][1] = addr => timerLog.alarms[k][2] >= Deadline(t)
         /\ AlarmsOf(addr) = 1 => t \notin timers
         /\ (addr \notin timerLog.removed /\ timerLog.polled >= Deadline(t)) =>
               AlarmsOf(addr) = 1

(***************************************************************************)
(* The number-tracker registry's Delete.                                   *)
(***************************************************************************)
\* C24: after a Delete(name) that returned no error Get(name) finds no
\* tracker (names compared without regard to case) and Count is one less; a
\* Delete(name) that matches no tracker returns an error and leaves the
\* registry as it was.
C24_DeleteRemovesName ==
    numberLast.op = "Delete" =>
      /\ ~numberLast.err =>
            /\ NumberGet(numbers.trackers, numberLast.name) = {NilNumberTracker}
            /\ NumberCount(numbers.trackers) = NumberCount(numberLast.before) - 1
      /\ Matching(numberLast.before, numberLast.name) = {} => numberLast.err
      /\ numberLast.err =>
            /\ numbers.trackers = numberLast.before
            /\ Matching(numberLast.before, numberLast.name) = {}

(***************************************************************************)
(* The TUI (tui/model.go): Model.handleCommand on the lines entered.  The  *)
(* Model is its initiativeEntryMode and its initiative Manager; the        *)
(* history lines a handler prints are left out, and entered keeps which    *)
(* handler took the line and what it handed to dice.Parse.  handleTimer    *)
(* and handleTrack act on the other two managers: the lines entered give   *)
(* them no arguments, so that they print their usage line only.            *)
(***************************************************************************)
\* The largest number of participants that are entered in the TUI.
MaxEntered == 2

\* unicode.IsSpace, on the characters used
IsSpace(c) == c \in {" ", "\t"}

\* The length of the run of non-space characters s begins with.
WordLen(s) ==
    CHOOSE n \in 0..Len(s) :
       /\ \A k \in 1..n : ~IsSpace(s[k])
       /\ n = Len(s) \/ IsSpace(s[n + 1])

\* strings.Fields
RECURSIVE Fields(_)
Fields(s) ==
    IF s = <<>> THEN <<>>
    ELSE IF IsSpace(s[1]) THEN Fields(Tail(s))
    ELSE <<SubSeq(s, 1, WordLen(s))>> \o Fields(SubSeq(s, WordLen(s) + 1, Len(s)))

\* strings.Join
RECURSIVE Join(_, _)
Join(parts, sep) ==
    IF parts = <<>> THEN <<>>
    ELSE IF Len(parts) = 1 THEN parts[1]
    ELSE parts[1] \o sep \o Join(Tail(parts), sep)

\* strings.HasPrefix
HasPrefix(s, prefix) == Len(prefix) <= Len(s) /\ SubSeq(s, 1, Len(prefix)) = prefix

\* strconv.Atoi on a word: an optional sign and decimal digits in the range
\* of int.
AtoiWord(w) ==
    LET signed == w # <<>> /\ w[1] \in {"+", "-"}
        ds == IF signed THEN Tail(w) ELSE w
    IN IF ds = <<>> \/ (\E k \in 1..Len(ds) : ~IsDigit(ds[k])) \/ AtoiRangeError(ds)
       THEN [err |-> TRUE, value |-> 0]
       ELSE [err |-> FALSE, value |-> IF signed /\ w[1] = "-" THEN 0 - Atoi(ds) ELSE Atoi(ds)]

\* The words the handlers compare with.
Words ==
    [roll |-> <<"r", "o", "l", "l">>,
     alarm |-> <<"a", "l", "a", "r", "m">>,
     initiative |-> <<"i", "n", "i", "t", "i", "a", "t", "i", "v", "e">>,
     init |-> <<"i", "n", "i", "t">>,
     tracker |-> <<"t", "r", "a", "c", "k", "e", "r">>,
     track |-> <<"t", "r", "a", "c", "k">>,
     help |-> <<"h", "e", "l", "p">>,
     quit |-> <<"q", "u", "i", "t">>,
     clear |-> <<"c", "l", "e", "a", "r">>,
     start |-> <<"s", "t", "a", "r", "t">>,
     next |-> <<"n", "e", "x", "t">>,
     add |-> <<"a", "d", "d">>,
     kill |-> <<"k", "i", "l", "l">>,
     end |-> <<"e", "n", "d">>,
     done |-> <<"d", "o", "n", "e">>]

\* Manager.Start
ManagerStart(mgr) == [tracker |-> NewTracker, active |-> TRUE]

\* Manager.End
ManagerEnd(mgr) == [tracker |-> NilTracker, active |-> FALSE]

\* Manager.Add: the managers it may leave, one for each arrangement
\* Tracker.sort may make.
ManagerAdd(mgr, name, initiative) ==
    IF mgr.tracker = NilTracker THEN {mgr}
    ELSE {[mgr EXCEPT !.tracker.Participants = sorted] :
            sorted \in sort(Append(mgr.tracker.Participants,
                                   [Name |-> name, Initiative |-> initiative,
                                    IsActive |-> TRUE]))}

\* Manager.Next
ManagerNext(mgr) ==
    IF mgr.tracker = NilTracker \/ Len(mgr.tracker.Participants) = 0 THEN mgr
    ELSE [mgr EXCEPT !.tracker = NextLoop(mgr.tracker, mgr.tracker.CurrentTurn)]

\* Manager.MarkOut
ManagerMarkOut(mgr, name) ==
    IF mgr.tracker = NilTracker THEN mgr
    ELSE [mgr EXCEPT !.tracker = SetActive(mgr.tracker, name, FALSE)]

\* What a call of handleCommand leaves: the Model, and the record of the line.
Handled(m2, m, input, handler, parse) ==
    [model |-> m2,
     entered |-> [input |-> input, entryMode |-> m.initiativeEntryMode,
                  handler |-> handler, parse |-> parse]]

\* dice.Parse(text), as the handlers call it; RollExpression follows when err
\* is nil.
CallParse(text) ==
    [called |-> TRUE, text |-> text, err |-> Parse(text).err, expr |-> Parse(text).expr]

\* handleCommand in initiative entry mode.
HandleEntry(m, input) ==
    IF input = <<>> \/ ToLower(input) = Words.done \/ ToLower(input) = Words.end
    THEN {Handled([m EXCEPT !.initiativeEntryMode = FALSE], m, input, "exit", NoParse)}
    ELSE LET parts == Fields(input) IN
         IF Len(parts) < 2 THEN {Handled(m, m, input, "entry", NoParse)}
         ELSE IF AtoiWord(parts[Len(parts)]).err THEN {Handled(m, m, input, "entry", NoParse)}
         ELSE {Handled([m EXCEPT !.initiativeManager = mgr], m, input, "entry", NoParse) :
                 mgr \in ManagerAdd(m.initiativeManager,
                                    Join(SubSeq(parts, 1, Len(parts) - 1), <<" ">>),
                                    AtoiWord(parts[Len(parts)]).value)}

\* handleRoll: dice.Parse on the first argument.
HandleRoll(m, input, args) ==
    IF args = <<>> THEN Handled(m, m, input, "roll", NoParse)
    ELSE Handled(m, m, input, "roll", CallParse(args[1]))

\* handleInitiative: the Model it leaves.
HandleInitiative(m, args) ==
    IF args = <<>> THEN m
    ELSE LET subCmd == ToLower(args[1])
             mgr == m.initiativeManager
         IN IF HasPrefix(Words.start, subCmd) \/ subCmd = <<"s">>
            THEN [initiativeEntryMode |-> TRUE, initiativeManager |-> ManagerStart(mgr)]
            ELSE IF HasPrefix(Words.next, subCmd) \/ subCmd = <<"n">>
            THEN IF ~mgr.active THEN m
                 ELSE [m EXCEPT !.initiativeManager = ManagerNext(mgr)]
            ELSE IF HasPrefix(Words.add, subCmd) \/ subCmd = <<"a">>
            THEN IF ~mgr.active THEN m
                 ELSE [m EXCEPT !.initiativeEntryMode = TRUE]
            ELSE IF HasPrefix(Words.kill, subCmd) \/ subCmd = <<"k">>
            THEN IF ~mgr.active \/ Len(args) < 2 THEN m
                 ELSE [m EXCEPT !.initiativeManager =
                                   ManagerMarkOut(mgr, Join(Tail(args), <<" ">>))]
            ELSE IF HasPrefix(Words.end, subCmd) \/ subCmd = <<"e">>
            THEN [m EXCEPT !.initiativeManager = ManagerEnd(mgr)]
            ELSE m

\* handleCommand outside entry mode: the switch on the first field.
Dispatch(m, input) ==
    LET parts == Fields(input) IN
    IF Len(parts) = 0 THEN Handled(m, m, input, "empty", NoParse)
    ELSE LET cmd == ToLower(parts[1])
             args == Tail(parts)
         IN IF HasPrefix(Words.roll, cmd) THEN HandleRoll(m, input, args)
            ELSE IF HasPrefix(Words.alarm, cmd) \/ cmd = <<"a">>
            THEN Handled(m, m, input, "alarm", NoParse)
            ELSE IF HasPrefix(Words.initiative, cmd) \/ HasPrefix(Words.init, cmd)
                    \/ cmd = <<"i">>
            THEN Handled(HandleInitiative(m, args), m, input, "initiative", NoParse)
            ELSE IF HasPrefix(Words.tracker, cmd) \/ HasPrefix(Words.track, cmd)
                    \/ cmd = <<"t">>
            THEN Handled(m, m, input, "tracker", NoParse)
            ELSE IF HasPrefix(Words.help, cmd) THEN Handled(m, m, input, "help", NoParse)
            ELSE IF HasPrefix(Words.quit, cmd) THEN Handled(m, m, input, "quit", NoParse)
            ELSE IF HasPrefix(Words.clear, cmd) THEN Handled(m, m, input, "clear", NoParse)
            ELSE Handled(m, m, input, "dice", CallParse(input))

\* A plausible slip: the lines of entry mode go through the switch as well.
HandleCommand_NoEntryMode(m, input) == {Dispatch(m, input)}

\* handleCommand: what it may leave.
HandleCommand(m, input) ==
    IF m.initiativeEntryMode THEN HandleEntry(m, input) ELSE {Dispatch(m, input)}

\* The lines that are entered: commands,
CommandLines ==
    {<<"i", " ", "s", "t", "a", "r", "t">>,
     <<"i", " ", "e", "n", "d">>,
     <<"I", " ", "E", "N", "D">>,
     <<"i", " ", "a", "d", "d">>,
     <<"i", " ", "n", "e", "x", "t">>,
     <<"i", " ", "k", "i", "l", "l", " ", "A", "p", "p", "l", "e">>,
     <<"i">>,
     <<"h">>,
     <<"q">>,
     <<"c">>,
     <<"a">>,
     <<"t">>,
     <<" ">>}

\* lines of entry mode,
EntryLines ==
    {<<"A", "p", "p", "l", "e", " ", "1", "5">>,
     <<"Z", "e", "b", "r", "a", " ", "1", "2">>,
     <<"A", "p", "p", "l", "e">>,
     <<"A", "p", "p", "l", "e", " ", "x">>,
     <<"d", "o", "n", "e">>,
     <<"D", "O", "N", "E">>,
     <<"e", "n", "d">>,
     <<"d", "o", "n", "e", " ">>}

\* roll commands,
RollLines ==
    {<<"r", " ", "2", "d", "6">>,
     <<"r", "o", "l", "l", " ", "2", "d", "6", "+", "3">>,
     <<"r", " ", "2", "d", "6", " ", "+", " ", "3">>,
     <<"r", " ", "2", " ", "d", " ", "6">>,
     <<"r", " ", "2", "x", "6">>,
     <<"r">>,
     <<"R", " ", "D", "6">>}

\* and notations entered as they are.
NotationLines ==
    {<<"2", "d", "6">>,
     <<"2", "d", "6", "+", "3">>,
     <<"2", "d", "6", " ", "+", " ", "3">>,
     <<"2", " ", "d", " ", "6">>,
     <<"2", "x", "6">>,
     <<"D", "6">>}

TuiLines == CommandLines \cup EntryLines \cup RollLines \cup NotationLines

InitTui ==
    /\ IdleTui
    /\ IdleDice
    /\ IdleCalls
    /\ IdleRotation
    /\ IdleTimers
    /\ IdleNumbers

\* Model.Update on the Enter key with a line in the input (no line is
\* entered after "quit"; the participants and rounds stay in the bounds).
Enter(input) ==
    /\ input # <<>>
    /\ entered.handler # "quit"
    /\ \E o \in HandleCommand(model, input) :
          /\ Len(o.model.initiativeManager.tracker.Participants) <= MaxEntered
          /\ o.model.initiativeManager.tracker.Round <= MaxRound
          /\ model' = o.model
          /\ entered' = o.entered
    /\ UNCHANGED outsideTui

NextTui == \E input \in TuiLines : Enter(input)

SpecTui == InitTui /\ [][NextTui]_vars

\* The text after the command word of a roll command and the space behind it.
RollOperand(input) == SubSeq(input, WordLen(input) + 2, Len(input))

\* C29: entry mode only with an active manager that has a tracker, and the
\* manager active exactly when it has a tracker; a line entered in entry mode
\* is taken as a participant entry or as "done"/"end" and never goes to a
\* command handler, so that the session is still active after it.
C29_EntryModeKeepsSession ==
    /\ model.initiativeEntryMode =>
          (model.initiativeManager.active /\ model.initiativeManager.tracker # NilTracker)
    /\ model.initiativeManager.active <=> model.initiativeManager.tracker # NilTracker
    /\ entered.entryMode =>
          /\ entered.handler \in {"entry", "exit"}
          /\ ~entered.parse.called
          /\ model.initiativeManager.active
          /\ entered.handler = "entry" => model.initiativeEntryMode

\* "i end" entered in entry mode: the session goes on, in entry mode.
C29_Witness ==
    /\ entered.entryMode
    /\ entered.input = <<"i", " ", "e", "n", "d">>
    /\ model.initiativeEntryMode
    /\ model.initiativeManager.active
    /\ Len(model.initiativeManager.tracker.Participants) > 0

\* C30: a roll command "r N" leads to the call of dice.Parse that the line N
\* entered by itself leads to: the same text, and so the same error or the
\* same Expression.
C30_RollSameAsDirect ==
    (entered.handler = "roll" /\ entered.parse.called) =>
       \A o \in HandleCommand(NewModel, RollOperand(entered.input)) :
          o.entered.parse = entered.parse

====
